---- MODULE Spec2Model ----
(***************************************************************************)
(* A model of the voice-agent-demo voice processor: processVoicePipeline   *)
(* (controller), validateAudioFile / extractAudioMetadata /                *)
(* validatePipelineStages (model layer), handlePipelineError with          *)
(* generateRequestId (error reporter) and the PipelineError type.          *)
(*                                                                         *)
(* One run of processVoicePipeline is an async function: the code between  *)
(* two awaits runs atomically, so every action below is one such segment.  *)
(* The awaits are audioFile.arrayBuffer(), env.AI.run('whisper-large-v3'), *)
(* env.AI.run('llama-3.3-70b') and fetch(hume) with the reading of its     *)
(* body.  What the awaited calls answer is the environment's choice.       *)
(*                                                                         *)
(* JavaScript values that may be a string, undefined or something else are *)
(* records [t, s]: t is the type and s the characters (of a transcript) or *)
(* the pieces (of a message built from a template).                        *)
(*                                                                         *)
(* Spec is processVoicePipeline; ReporterSpec is two calls of              *)
(* handlePipelineError within one process; ValidatorSpec applies           *)
(* validateAudioFile to one File.                                          *)
(***************************************************************************)
EXTENDS Integers, Sequences, FiniteSets, TLC

VARIABLES
    pc,              \* per run: where the async function is suspended
    file,            \* per run: the File handed to processVoicePipeline
    now,             \* the reading Date.now() would give
    startTime,       \* per run: const startTime
    stageStart,      \* per run: whisperStart / llamaStart / humeStart of the stage in flight
    pipelineStages,  \* per run: const pipelineStages: PipelineStageResult[]
    transcript,      \* per run: let transcript
    llmOutput,       \* per run: let llmOutput
    calls,           \* per run: the external calls issued so far, in order
    received,        \* per run: what the awaited calls answered, in order
    failedStage,     \* per run: the stage whose work failed (<<>> while none has)
    raised,          \* per run: the error first raised inside the run (<<>> or <<e>>)
    thrown,          \* per run: the error the returned promise rejected with (<<>> or <<e>>)
    result,          \* per run: the value the returned promise resolved with (<<>> or <<r>>)
    clockBackward,   \* whether Date.now() has ever stepped backwards
    reports,         \* per call of handlePipelineError: its arguments and the record returned
    candidate,       \* the File handed to validateAudioFile
    validated,       \* the ValidationResult it returned (<<>> or <<v>>)
    checked,         \* a call of validatePipelineStages: its arguments and outcome (<<>> or <<c>>)
    request,         \* per run: the form data of the POST /process-voice request (<<>> or <<form>>)
    response,        \* per run: the HTTP response of the request (<<>> or <<response>>)
    invocations,     \* per run: how often the request's handler has called processVoicePipeline
    cancelled,       \* per run: the number of calls issued when the caller gave the run up (<<>> or <<n>>)
    overdue,         \* per run: the stage in flight when the run outran its time budget (<<>> or <<stage>>)
    hpc,             \* where processGitHaiku is suspended
    commits,         \* the commits handed to processGitHaiku
    attempt,         \* let attempt
    aiCalls,         \* the prompts of the env.AI.run calls issued so far, in order
    aiAnswers,       \* what those calls answered, in order
    formatCalls,     \* the arguments of the calls of formatHaikuResponse, in order
    haiku,           \* the string processGitHaiku resolved with (<<>> or <<string>>)
    metadataError,   \* per run: what reading the File's properties in extractAudioMetadata throws (<<>> or <<e>>)
    tpc,             \* where the git-haiku tool handler is suspended
    controllerRejection, \* what a stand-in for processGitHaiku rejects with (<<>>: the controller itself runs)
    toolResult,      \* what the tool handler returned or threw (<<>> or <<outcome>>)
    apc,             \* where the POST handler of the chat endpoint is suspended
    json,            \* what await request.json() gives the handler
    environment,     \* whether the four RAINDROP_* variables of process.env are set
    currentSessionId,\* let currentSessionId
    memorySearch,    \* const memorySearch (<<>> or <<value>>)
    raindropCalls,   \* the Raindrop calls issued so far, in order
    raindropAnswers, \* what those calls answered, in order
    agentResponse    \* the Response the handler returned (<<>> or <<response>>)

vars == <<pc, file, now, startTime, stageStart, pipelineStages, transcript,
          llmOutput, calls, received, failedStage, raised, thrown, result,
          clockBackward, reports, candidate, validated, checked,
          request, response, invocations, cancelled, overdue,
          hpc, commits, attempt, aiCalls, aiAnswers, formatCalls, haiku,
          metadataError, tpc, controllerRejection, toolResult,
          apc, json, environment, currentSessionId, memorySearch,
          raindropCalls, raindropAnswers, agentResponse>>

\* the variables of the error reporter and of the validator
reporterVars == <<reports>>
validatorVars == <<candidate, validated, checked>>
\* the variables of the caller of processVoicePipeline
callerVars == <<request, response, invocations, cancelled, overdue>>
\* the variables of processGitHaiku
haikuVars == <<hpc, commits, attempt, aiCalls, aiAnswers, formatCalls, haiku>>
\* the variables of the git-haiku tool handler
toolVars == <<tpc, controllerRejection, toolResult>>
\* the variables of the chat endpoint
agentVars == <<apc, json, environment, currentSessionId, memorySearch,
               raindropCalls, raindropAnswers, agentResponse>>
\* the variables of the runs of processVoicePipeline
runVars == <<pc, file, startTime, stageStart, pipelineStages, transcript,
             llmOutput, calls, received, failedStage, raised, thrown, result,
            metadataError>>

-----------------------------------------------------------------------------
(* Bounds of the model *)

\* longest transcript / completion text, in characters
MaxLen == 2
\* largest forward step of the clock between two readings, in ms
MaxTick == 1

\* the runs of processVoicePipeline (one per inbound request)
Runs == {"r1", "r2"}

\* the calls of handlePipelineError within one process, in the order made
HandlerCalls == <<"h1", "h2">>

-----------------------------------------------------------------------------
(* JavaScript values *)

Undef == [t |-> "undefined", s |-> <<>>]
Str(s) == [t |-> "string", s |-> s]
\* a truthy value that is not a string (a number, an object)
NonString == [t |-> "other", s |-> <<>>]

\* the characters of the model's texts; String.prototype.trim strips the white ones
Alphabet == {"a", " "}
IsWhitespace(c) == c \in {" ", "\t", "\n"}

SeqsUpTo(S, n) == UNION {[1..k -> S] : k \in 0..n}
Texts == SeqsUpTo(Alphabet, MaxLen)

RECURSIVE TrimStart(_)
TrimStart(s) ==
    IF s = <<>> THEN <<>>
    ELSE IF IsWhitespace(Head(s)) THEN TrimStart(Tail(s)) ELSE s

RECURSIVE TrimEnd(_)
TrimEnd(s) ==
    IF s = <<>> THEN <<>>
    ELSE IF IsWhitespace(s[Len(s)]) THEN TrimEnd(SubSeq(s, 1, Len(s) - 1)) ELSE s

\* String.prototype.trim
Trim(s) == TrimEnd(TrimStart(s))

\* JavaScript truthiness of the values above
Truthy(v) ==
    CASE v.t = "undefined" -> FALSE
      [] v.t = "string" -> v.s # <<>>
      [] OTHER -> TRUE

\* a || b
OrElse(a, b) == IF Truthy(a) THEN a ELSE b

-----------------------------------------------------------------------------
(* Errors *)

\* new Error(message) and its subclasses; NonError is a rejection value that
\* is no instance of Error (a thrown string, a plain object {message: ...}),
\* with the text it carries as message
MkError(name, message) ==
    [name |-> name, message |-> message, stage |-> "", details |-> Undef]

InstanceOfError(e) == e.name # "NonError"

\* class PipelineError extends Error
PipelineError(message, stage, details) ==
    [name |-> "PipelineError", message |-> message, stage |-> stage, details |-> details]

InstanceOfPipelineError(e) == e.name = "PipelineError"

\* what a rejected call may reject with
Rejections ==
    { MkError("Error", <<"API error">>),
      MkError("Error", <<>>),
      MkError("NonError", <<"rate limited">>) }

\* the TypeError of reading a property of undefined / null, or of calling a
\* method the value does not have
TypeErrorOf(what) == MkError("TypeError", <<"TypeError: ", what>>)

\* error instanceof Error ? error.message : 'Unknown error'
OutcomeErrorText(e) ==
    IF InstanceOfError(e) THEN Str(e.message) ELSE Str(<<"Unknown error">>)

\* error instanceof Error ? error.message : undefined
ErrorDetails(e) == IF InstanceOfError(e) THEN Str(e.message) ELSE Undef

-----------------------------------------------------------------------------
(* The model layer *)

MAX_FILE_SIZE == 25 * 1024 * 1024

SUPPORTED_MIME_TYPES ==
    <<"audio/wav", "audio/mp3", "audio/mpeg", "audio/mp4", "audio/webm",
      "audio/m4a", "audio/mpga">>

SUPPORTED_EXTENSIONS == <<"wav", "mp3", "m4a", "webm", "mp4", "mpeg", "mpga">>

\* Array.prototype.includes
Includes(arr, x) == \E i \in DOMAIN arr : arr[i] = x

\* Array.prototype.join
RECURSIVE Join(_, _)
Join(arr, sep) ==
    IF arr = <<>> THEN <<>>
    ELSE IF Len(arr) = 1 THEN <<arr[1]>>
    ELSE <<arr[1], sep>> \o Join(Tail(arr), sep)

\* String.prototype.toLowerCase on one dot-free piece of a file name
ToLowerCase(piece) ==
    CASE piece = "WAV" -> "wav"
      [] piece = "Mp3" -> "mp3"
      [] piece = "TXT" -> "txt"
      [] piece = "Test" -> "test"
      [] OTHER -> piece

\* A file name is kept as the pieces between its dots, so that
\* name.toLowerCase().split('.') is the lower-cased pieces and pop() the last.
FileExtension(name) == ToLowerCase(name[Len(name)])

ValidationResult(valid, error, f, tooBig, unsupported) ==
    [valid |-> valid, error |-> error,
     details |-> [fileSize |-> f.size, fileType |-> f.type,
                  maxSizeExceeded |-> tooBig, unsupportedFormat |-> unsupported]]

\* a validator that looks at the format first and at the size second
validateAudioFile_FormatFirst(f) ==
    LET isValidMimeType == Includes(SUPPORTED_MIME_TYPES, f.type)
        fileExtension == FileExtension(f.name)
        hasValidExtension ==
            fileExtension # "" /\ Includes(SUPPORTED_EXTENSIONS, fileExtension)
    IN  IF ~isValidMimeType /\ ~hasValidExtension
        THEN ValidationResult(FALSE,
                 Str(<<"Unsupported file format. Supported formats: ">>
                     \o Join(SUPPORTED_EXTENSIONS, ", ")),
                 f, f.size > MAX_FILE_SIZE, TRUE)
        ELSE IF f.size > MAX_FILE_SIZE
        THEN ValidationResult(FALSE,
                 Str(<<"File size exceeds maximum allowed size of ",
                       ToString((MAX_FILE_SIZE \div 1024) \div 1024), "MB">>),
                 f, TRUE, FALSE)
        ELSE ValidationResult(TRUE, Undef, f, FALSE, FALSE)

\* a validator that rejects a file of exactly the maximum size
validateAudioFile_AtLeast(f) ==
    IF f.size >= MAX_FILE_SIZE
    THEN ValidationResult(FALSE, Str(<<"File size exceeds maximum allowed size">>),
                          f, TRUE, FALSE)
    ELSE IF ~Includes(SUPPORTED_MIME_TYPES, f.type)
            /\ ~Includes(SUPPORTED_EXTENSIONS, FileExtension(f.name))
    THEN ValidationResult(FALSE, Str(<<"Unsupported file format">>), f, FALSE, TRUE)
    ELSE ValidationResult(TRUE, Undef, f, FALSE, FALSE)

\* a validator that takes every audio/* media type as supported
validateAudioFile_AnyAudioType(f) ==
    IF f.size > MAX_FILE_SIZE
    THEN ValidationResult(FALSE, Str(<<"File size exceeds maximum allowed size">>),
                          f, TRUE, FALSE)
    ELSE IF ~(f.type \in {"audio/wav", "audio/mpeg", "audio/x-flac"})
            /\ ~Includes(SUPPORTED_EXTENSIONS, FileExtension(f.name))
    THEN ValidationResult(FALSE, Str(<<"Unsupported file format">>), f, FALSE, TRUE)
    ELSE ValidationResult(TRUE, Undef, f, FALSE, FALSE)

\* a validator that wants both the media type and the extension supported
validateAudioFile_BothRequired(f) ==
    IF f.size > MAX_FILE_SIZE
    THEN ValidationResult(FALSE, Str(<<"File size exceeds maximum allowed size">>),
                          f, TRUE, FALSE)
    ELSE IF ~Includes(SUPPORTED_MIME_TYPES, f.type)
            \/ ~Includes(SUPPORTED_EXTENSIONS, FileExtension(f.name))
    THEN ValidationResult(FALSE, Str(<<"Unsupported file format">>), f, FALSE, TRUE)
    ELSE ValidationResult(TRUE, Undef, f, FALSE, FALSE)

validateAudioFile(f) ==
    IF f.size > MAX_FILE_SIZE
    THEN ValidationResult(FALSE,
             Str(<<"File size exceeds maximum allowed size of ",
                   ToString((MAX_FILE_SIZE \div 1024) \div 1024), "MB">>),
             f, TRUE, FALSE)
    ELSE LET isValidMimeType == Includes(SUPPORTED_MIME_TYPES, f.type)
             fileExtension == FileExtension(f.name)
             hasValidExtension ==
                 fileExtension # "" /\ Includes(SUPPORTED_EXTENSIONS, fileExtension)
         IN  IF ~isValidMimeType /\ ~hasValidExtension
             THEN ValidationResult(FALSE,
                      Str(<<"Unsupported file format. Supported formats: ">>
                          \o Join(SUPPORTED_EXTENSIONS, ", ")),
                      f, FALSE, TRUE)
             ELSE ValidationResult(TRUE, Undef, f, FALSE, FALSE)

extractAudioMetadata(f) == [size |-> f.size, type |-> f.type, name |-> f.name]

\* The outcomes of validatePipelineStages: it returns a boolean, or throws
\* when a truthy argument has no trim method.
TrimThrows(v) == Truthy(v) /\ v.t # "string"
IsBlankOrMissing(v) == ~Truthy(v) \/ Len(Trim(v.s)) = 0

validatePipelineStagesThrows(t, l) ==
    \/ TrimThrows(t)
    \/ (~IsBlankOrMissing(t) /\ TrimThrows(l))

\* a check that looks at the LLM output only
validatePipelineStages_OutputOnly(t, l) == ~IsBlankOrMissing(l)

validatePipelineStages(t, l) ==
    IF IsBlankOrMissing(t) THEN FALSE
    ELSE IF IsBlankOrMissing(l) THEN FALSE
    ELSE TRUE

-----------------------------------------------------------------------------
(* The inputs of a run and the answers of the awaited calls *)

\* File objects handed to processVoicePipeline; name is the pieces between dots
PipelineFiles ==
    { [size |-> 1024, type |-> "audio/wav", name |-> <<"test", "wav">>],
      [size |-> MAX_FILE_SIZE, type |-> "text/plain", name |-> <<"clip", "Mp3">>],
      [size |-> MAX_FILE_SIZE + 1, type |-> "audio/wav", name |-> <<"big", "wav">>],
      [size |-> 30 * 1024 * 1024, type |-> "audio/wav", name |-> <<"huge", "wav">>],
      [size |-> 1024, type |-> "text/plain", name |-> <<"notes", "txt">>] }

\* the file of a run that is never started
NoFile == [size |-> 0, type |-> "", name |-> <<"">>]

NoError == MkError("none", <<>>)

Answer(kind, value, error, status) ==
    [kind |-> kind, value |-> value, error |-> error, status |-> status]

\* what a text field of a provider's answer may hold
TextValues == {Undef, NonString} \cup {Str(s) : s \in Texts}

\* await audioFile.arrayBuffer()
ArrayBufferAnswers ==
    {Answer("resolve", Undef, NoError, 0)}
    \cup {Answer("reject", Undef, e, 0) : e \in Rejections}

\* await env.AI.run('whisper-large-v3', ...): rejects, resolves with null or
\* undefined, or resolves with an object whose text field holds value
\* (Undef: the object has no text field)
WhisperAnswers ==
    {Answer("reject", Undef, e, 0) : e \in Rejections}
    \cup {Answer("nullish", Undef, NoError, 0)}
    \cup {Answer("object", v, NoError, 0) : v \in TextValues}

\* await env.AI.run('llama-3.3-70b', ...): rejects, resolves with null or
\* undefined, with an object without choices, with choices = [], with a first
\* choice without message, or with choices[0].message.content = value
LlamaAnswers ==
    {Answer("reject", Undef, e, 0) : e \in Rejections}
    \cup {Answer(k, Undef, NoError, 0) :
             k \in {"nullish", "noChoices", "emptyChoices", "noMessage"}}
    \cup {Answer("content", v, NoError, 0) : v \in TextValues}

\* status codes and body texts of the text-to-speech provider
HumeStatuses == {200, 500}
HumeBodies == {Str(<<"Hume TTS service error">>), Str(<<>>)}
AudioValues ==
    {Undef, Str(<<>>), Str(<<"base64-encoded-audio-data">>), Str(<<"dGVzdA==">>)}

\* Response.ok
ResponseOk(status) == status \in 200..299

\* await fetch('https://api.hume.ai/v0/tts', ...) and the reading of its body:
\* fetch rejects; or it resolves with a status and a body.  A body read with
\* text() is value; a body read with json() does not parse (badJson), or
\* parses to null (nullData), to an object without generations, with
\* generations = [], with a null first generation, or with
\* generations[0].audio = value.
HumeAnswers ==
    {Answer("reject", Undef, e, 0) : e \in Rejections}
    \cup {Answer("body", b, NoError, st) :
             b \in HumeBodies, st \in {x \in HumeStatuses : ~ResponseOk(x)}}
    \cup {Answer("badJson", Undef, MkError("SyntaxError", <<"Unexpected token">>), st) :
             st \in {x \in HumeStatuses : ResponseOk(x)}}
    \cup {Answer(k, Undef, NoError, st) :
             k \in {"nullData", "noGenerations", "emptyGenerations", "nullGeneration"},
             st \in {x \in HumeStatuses : ResponseOk(x)}}
    \cup {Answer("audio", v, NoError, st) :
             v \in AudioValues, st \in {x \in HumeStatuses : ResponseOk(x)}}

\* by how much Date.now() may differ between two readings that have work or
\* an await between them: nothing, MaxTick ms, or 1 ms back (the wall clock
\* may be set back)
ClockDeltas == {-1, 0, MaxTick}

-----------------------------------------------------------------------------
(* processVoicePipeline, piece by piece *)

PipelineStageOrder == <<"validation", "whisper", "llama", "hume", "response-assembly">>

\* one PipelineStageResult pushed to pipelineStages
StageResult(stage, success, durationMs, error) ==
    [stage |-> stage, success |-> success, durationMs |-> durationMs, error |-> error]

\* a controller that forgets to throw on an invalid file
ValidationThrows_Never(validation) == FALSE

\* if (!validation.valid) throw ...
ValidationThrows(validation) == ~validation.valid

\* new PipelineError(validation.error || 'Validation failed', 'validation')
ValidationError(validation) ==
    PipelineError(OrElse(validation.error, Str(<<"Validation failed">>)).s,
                  "validation", Undef)

\* the catch block of a stage: the failed outcome it pushes
CaughtOutcome(stage, durationMs, e) ==
    StageResult(stage, FALSE, durationMs, OutcomeErrorText(e))

\* a catch block that rethrows what it caught
CaughtError_Rethrow(stage, message, e) == e

\* the catch block of a stage: the PipelineError it throws
CaughtError(stage, message, e) == PipelineError(message, stage, ErrorDetails(e))

\* the try block of the whisper stage: what it throws, if it throws
WhisperThrown(a) ==
    IF a.kind = "reject" THEN <<a.error>>
    ELSE IF a.kind = "nullish"
    THEN <<TypeErrorOf("Cannot read properties of undefined (reading 'text')")>>
    ELSE <<>>

\* a transcript that is tidied before it is handed on
WhisperText_Trimmed(a) ==
    IF a.value.t = "string" THEN Str(TrimStart(a.value.s)) ELSE a.value

\* transcript = whisperResponse.text
WhisperText(a) == a.value

\* a try block reading llamaResponse.choices?.[0]?.message?.content
LlamaThrown_OptionalChaining(a) ==
    IF a.kind = "reject" THEN <<a.error>>
    ELSE IF a.kind = "nullish"
    THEN <<TypeErrorOf("Cannot read properties of undefined")>>
    ELSE <<>>

\* the try block of the llama stage: what it throws, if it throws
LlamaThrown(a) ==
    IF a.kind = "reject" THEN <<a.error>>
    ELSE IF a.kind \in {"nullish", "noChoices", "emptyChoices", "noMessage"}
    THEN <<TypeErrorOf("Cannot read properties of undefined")>>
    ELSE <<>>

\* llmOutput = llamaResponse.choices[0].message.content
LlamaContent(a) == a.value

\* `Hume API error: ${ttsResponse.status} - ${errorText}`
HumeApiErrorMessage(status, errorText) ==
    <<"Hume API error: ", ToString(status), " - ">> \o errorText.s

\* a check that stops at ttsData.generations.length > 0
HasAudio_GenerationsOnly(a) == a.kind \in {"nullGeneration", "audio"}

\* ttsData.generations && ttsData.generations.length > 0 && ttsData.generations[0]?.audio
HasAudio(a) == a.kind = "audio" /\ Truthy(a.value)

\* the try block of the hume stage: what it throws, if it throws
HumeThrown(a) ==
    IF a.kind = "reject" THEN <<a.error>>
    ELSE IF ~ResponseOk(a.status)
    THEN <<MkError("Error", HumeApiErrorMessage(a.status, a.value))>>
    ELSE IF a.kind = "badJson" THEN <<a.error>>
    ELSE IF a.kind = "nullData"
    THEN <<TypeErrorOf("Cannot read properties of null (reading 'generations')")>>
    ELSE IF ~HasAudio(a)
    THEN <<MkError("Error", <<"No audio generated by TTS service">>)>>
    ELSE <<>>

\* an outer catch that wraps whatever it catches
OuterCatch_AlwaysWraps(e) ==
    PipelineError(<<"Unknown pipeline error">>, "response-assembly", ErrorDetails(e))

\* an outer catch that wraps without the message of what it caught
OuterCatch_NoDetails(e) ==
    IF InstanceOfPipelineError(e) THEN e
    ELSE PipelineError(<<"Unknown pipeline error">>, "response-assembly", Undef)

\* the outer catch: a PipelineError is rethrown, anything else is wrapped
OuterCatch(e) ==
    IF InstanceOfPipelineError(e) THEN e
    ELSE PipelineError(<<"Unknown pipeline error">>, "response-assembly", ErrorDetails(e))

\* metadata.size > 0 ? Math.ceil(metadata.size / 16000) : undefined
OriginalDuration(metadata) ==
    IF metadata.size > 0 THEN <<(metadata.size + 15999) \div 16000>> ELSE <<>>

\* a length taken after trimming
LengthOf_Trimmed(v) == IF v.t = "string" THEN <<Len(Trim(v.s))>> ELSE <<>>

\* transcript.length (undefined on a value that has no length)
LengthOf(v) == IF v.t = "string" THEN <<Len(v.s)>> ELSE <<>>

\* a result whose processing time is the time of the last stage alone
ProcessedAudioResult_LastStageTime(audioBase64, metadata, t, processingTimeMs, stages) ==
    [audioBase64 |-> audioBase64,
     metadata |-> [originalDuration |-> OriginalDuration(metadata),
                   transcriptLength |-> LengthOf(t),
                   processingTimeMs |-> stages[Len(stages)].durationMs,
                   pipelineStages |-> stages]]

\* the value returned on success
ProcessedAudioResult(audioBase64, metadata, t, processingTimeMs, stages) ==
    [audioBase64 |-> audioBase64,
     metadata |-> [originalDuration |-> OriginalDuration(metadata),
                   transcriptLength |-> LengthOf(t),
                   processingTimeMs |-> processingTimeMs,
                   pipelineStages |-> stages]]

\* an external call as the provider sees it
Call(target, input) == [target |-> target, input |-> input]

-----------------------------------------------------------------------------
(* handlePipelineError and generateRequestId *)

\* an error value as handlePipelineError reads it: the fields above and stack
WithStack(e, stack) ==
    [name |-> e.name, message |-> e.message, stage |-> e.stage,
     details |-> e.details, stack |-> stack]

\* the stack a V8 Error carries: the lines of `${name}: ${message}` (the name
\* alone when the message is empty) followed by the frames
V8Stack(e) ==
    Str(<< IF e.message = <<>> THEN <<e.name>> ELSE <<e.name, ": ">> \o e.message,
           <<"    at processVoicePipeline (controller.ts)">> >>)

\* String.prototype.split('\n')[0] of a stack kept as its lines
FirstLine(stack) == Str(Head(stack.s))

\* the error values handed to handlePipelineError: PipelineErrors with and
\* without details, Errors with a message and with none, each with its stack
\* or with no stack property, and a plain object {message} without stack
ReportedErrors ==
    LET errors == { PipelineError(<<"Whisper transcription failed">>, "whisper",
                                  Str(<<"API error">>)),
                    PipelineError(<<"Pipeline validation failed">>,
                                  "response-assembly", Undef),
                    MkError("Error", <<"Something went wrong">>),
                    MkError("Error", <<>>) }
    IN  {WithStack(e, V8Stack(e)) : e \in errors}
        \cup {WithStack(MkError("Error", <<"Something went wrong">>), Undef),
              WithStack(MkError("NonError", <<"rate limited">>), Undef)}

\* the stage argument: index.ts passes error.stage or 'unknown'
FallbackStages == {"whisper", "hume", "unknown"}

\* Math.random().toString(36): the characters of the base-36 text of a number
\* in [0, 1): 0, 0.5, and two numbers that differ from the 12th digit on
RandomTexts ==
    { <<"0">>,
      <<"0", ".", "i">>,
      <<"0", ".", "4", "f", "z", "y", "o", "8", "2", "m", "v", "y", "r">>,
      <<"0", ".", "4", "f", "z", "y", "o", "8", "2", "m", "v", "z", "k">> }

\* String.prototype.substr(start, length)
Substr(s, start, length) ==
    SubSeq(s, start + 1, IF start + length < Len(s) THEN start + length ELSE Len(s))

\* new Date().toISOString(): the text of the millisecond the clock shows
ToISOString(ms) == Str(<<"iso:", ToString(ms)>>)

\* `req_${Date.now()}_${Math.random().toString(36).substr(2, 9)}`
generateRequestId(ms, random) ==
    Str(<<"req_", ToString(ms), "_">> \o Substr(random, 2, 9))

ErrorResponse(error, stage, details, timestamp, requestId) ==
    [error |-> error, stage |-> stage, details |-> details,
     timestamp |-> timestamp, requestId |-> requestId]

\* a reporter that reports the message as it is, without a default
handlePipelineError_NoDefault(error, stage, ms, random) ==
    ErrorResponse(Str(error.message),
                  IF InstanceOfPipelineError(error) THEN error.stage ELSE stage,
                  IF InstanceOfPipelineError(error) THEN error.details
                  ELSE IF Truthy(error.stack) THEN FirstLine(error.stack) ELSE Undef,
                  ToISOString(ms), generateRequestId(ms, random))

\* a reporter that always reports the stage argument
handlePipelineError_StageArgument(error, stage, ms, random) ==
    ErrorResponse(OrElse(Str(error.message), Str(<<"Unknown error occurred">>)),
                  stage,
                  IF InstanceOfPipelineError(error) THEN error.details
                  ELSE IF Truthy(error.stack) THEN FirstLine(error.stack) ELSE Undef,
                  ToISOString(ms), generateRequestId(ms, random))

\* a reporter that puts the request id into the details
handlePipelineError_DetailsWithId(error, stage, ms, random) ==
    ErrorResponse(Str(error.message),
                  IF InstanceOfPipelineError(error) THEN error.stage ELSE stage,
                  generateRequestId(ms, random),
                  ToISOString(ms), generateRequestId(ms, random))

\* handlePipelineError(error, stage), with the clock reading and the random
\* number it draws
handlePipelineError(error, stage, ms, random) ==
    LET timestamp == ToISOString(ms)
        requestId == generateRequestId(ms, random)
    IN  IF InstanceOfPipelineError(error)
        THEN ErrorResponse(Str(error.message), error.stage, error.details,
                           timestamp, requestId)
        ELSE LET errorMessage ==
                     OrElse(Str(error.message), Str(<<"Unknown error occurred">>))
                 errorDetails ==
                     IF Truthy(error.stack) THEN FirstLine(error.stack) ELSE Undef
             IN  ErrorResponse(errorMessage, stage, errorDetails, timestamp, requestId)

-----------------------------------------------------------------------------
(* The files handed to validateAudioFile *)

CandidateSizes ==
    {0, 1024, MAX_FILE_SIZE - 1, MAX_FILE_SIZE, MAX_FILE_SIZE + 1, 26 * 1024 * 1024}

CandidateTypes == {"audio/wav", "audio/mpeg", "audio/x-flac", "text/plain", ""}

\* file names as the pieces between their dots: test.wav, clip.Mp3,
\* archive.tar.gz, notes.txt, wav (no dot), the empty name, and audio. (a
\* trailing dot)
CandidateNames ==
    { <<"test", "wav">>, <<"clip", "Mp3">>, <<"archive", "tar", "gz">>,
      <<"notes", "txt">>, <<"wav">>, <<"">>, <<"audio", "">> }

CandidateFiles ==
    {[size |-> sz, type |-> ty, name |-> nm] :
        sz \in CandidateSizes, ty \in CandidateTypes, nm \in CandidateNames}

-----------------------------------------------------------------------------
(* The state machine *)

\* no run has been started, no error reported, no file validated
NoReports == reports = [h \in DOMAIN HandlerCalls |-> <<>>]
NoCandidate == candidate = NoFile /\ validated = <<>> /\ checked = <<>>
NoCaller ==
    /\ request = [r \in Runs |-> <<>>]
    /\ response = [r \in Runs |-> <<>>]
    /\ invocations = [r \in Runs |-> 0]
    /\ cancelled = [r \in Runs |-> <<>>]
    /\ overdue = [r \in Runs |-> <<>>]

\* the Files handed to processVoicePipeline are ordinary ones: reading their
\* properties does not throw
OrdinaryFiles == metadataError = [r \in Runs |-> <<>>]

\* the git-haiku tool has not been called
NoTool ==
    /\ tpc = "idle"
    /\ controllerRejection = <<>>
    /\ toolResult = <<>>

\* the chat endpoint has received no request
NoAgent ==
    /\ apc = "idle"
    /\ json = Undef
    /\ environment = TRUE
    /\ currentSessionId = Undef
    /\ memorySearch = <<>>
    /\ raindropCalls = <<>>
    /\ raindropAnswers = <<>>
    /\ agentResponse = <<>>

\* processGitHaiku has not been called
NoHaiku ==
    /\ hpc = "idle"
    /\ commits = Undef
    /\ attempt = 0
    /\ aiCalls = <<>>
    /\ aiAnswers = <<>>
    /\ formatCalls = <<>>
    /\ haiku = <<>>

Init ==
    /\ pc = [r \in Runs |-> "idle"]
    /\ file \in {f \in [Runs -> PipelineFiles \cup {NoFile}] :
                    f["r1"] # NoFile /\ f["r2"] = NoFile}
    /\ NoReports
    /\ NoCandidate
    /\ NoCaller
    /\ NoHaiku
    /\ NoTool
    /\ NoAgent
    /\ OrdinaryFiles
    /\ now = 0
    /\ startTime = [r \in Runs |-> 0]
    /\ stageStart = [r \in Runs |-> 0]
    /\ pipelineStages = [r \in Runs |-> <<>>]
    /\ transcript = [r \in Runs |-> Undef]
    /\ llmOutput = [r \in Runs |-> Undef]
    /\ calls = [r \in Runs |-> <<>>]
    /\ received = [r \in Runs |-> <<>>]
    /\ failedStage = [r \in Runs |-> <<>>]
    /\ raised = [r \in Runs |-> <<>>]
    /\ thrown = [r \in Runs |-> <<>>]
    /\ result = [r \in Runs |-> <<>>]
    /\ clockBackward = FALSE

\* Date.now() read again after d ms
Tick(d) ==
    /\ now' = now + d
    /\ clockBackward' = (clockBackward \/ d < 0)

\* the stage whose work is under way at a position of the function
StageInFlight(p) ==
    CASE p = "idle" -> "validation"
      [] p \in {"arrayBuffer", "whisper"} -> "whisper"
      [] p = "llama" -> "llama"
      [] p = "hume" -> "hume"
      [] OTHER -> "response-assembly"

\* a pipeline whose outcome log is one array of the module, shared by the runs
Rejects_SharedLog(r, e, first, stage, stages) ==
    /\ pc' = [pc EXCEPT ![r] = "thrown"]
    /\ thrown' = [thrown EXCEPT ![r] = <<OuterCatch(e)>>]
    /\ raised' = [raised EXCEPT ![r] = <<first>>]
    /\ failedStage' = [failedStage EXCEPT ![r] = <<stage>>]
    /\ pipelineStages' = [q \in Runs |->
           IF q = r \/ stages = <<>> THEN stages
           ELSE Append(pipelineStages[q], stages[Len(stages)])]
    /\ UNCHANGED <<file, calls, result>>

\* the promise of run r rejects: e, thrown inside the outer try while the work
\* of `stage` was under way, goes through the outer catch; first is the error
\* that was raised first
Rejects(r, e, first, stage, stages) ==
    /\ pc' = [pc EXCEPT ![r] = "thrown"]
    /\ thrown' = [thrown EXCEPT ![r] = <<OuterCatch(e)>>]
    /\ raised' = [raised EXCEPT ![r] = <<first>>]
    /\ failedStage' = [failedStage EXCEPT ![r] = <<stage>>]
    /\ pipelineStages' = [pipelineStages EXCEPT ![r] = stages]
    /\ UNCHANGED <<file, calls, result>>

\* a catch block that waits for a retry timer instead of throwing
StageFails_AwaitsTimer(r, stage, message, e, end) ==
    /\ pc' = [pc EXCEPT ![r] = "backoff"]
    /\ UNCHANGED <<file, calls, thrown, raised, failedStage, pipelineStages, result>>

\* a catch block that throws without pushing the failed outcome
StageFails_NoPush(r, stage, message, e, end) ==
    Rejects(r, CaughtError(stage, message, e), e, StageInFlight(pc[r]),
            pipelineStages[r])

\* a catch block that issues the failed call a second time before giving up
StageFails_RetryOnce(r, stage, message, e, end) ==
    LET n == Len(calls[r])
        issued == {i \in DOMAIN calls[r] : calls[r][i].target = calls[r][n].target}
    IN  IF n > 0 /\ pc[r] # "arrayBuffer" /\ Cardinality(issued) = 1
        THEN /\ pc' = pc
             /\ calls' = [calls EXCEPT ![r] = Append(@, calls[r][n])]
             /\ UNCHANGED <<file, thrown, raised, failedStage, pipelineStages, result>>
        ELSE Rejects(r, CaughtError(stage, message, e), e, StageInFlight(pc[r]),
                     Append(pipelineStages[r],
                            CaughtOutcome(stage, end - stageStart[r], e)))

\* a stage's try block threw e: the catch block pushes the failed outcome and
\* throws the stage's PipelineError
StageFails(r, stage, message, e, end) ==
    Rejects(r, CaughtError(stage, message, e), e, StageInFlight(pc[r]),
            Append(pipelineStages[r], CaughtOutcome(stage, end - stageStart[r], e)))

\* processVoicePipeline(audioFile, env) up to its first await:
\* stage 1, validation
Start(r) ==
    /\ pc[r] = "idle"
    /\ file[r] # NoFile
    /\ \E d \in ClockDeltas :
         LET validationStart == now
             validation == validateAudioFile(file[r])
             validationEnd == now + d
             stages == Append(pipelineStages[r],
                           StageResult("validation", validation.valid,
                                       validationEnd - validationStart,
                                       validation.error))
         IN  /\ Tick(d)
             /\ startTime' = [startTime EXCEPT ![r] = now]
             /\ IF ValidationThrows(validation)
                THEN /\ Rejects(r, ValidationError(validation),
                                ValidationError(validation), "validation", stages)
                     /\ UNCHANGED stageStart
                ELSE /\ pc' = [pc EXCEPT ![r] = "arrayBuffer"]
                     /\ pipelineStages' = [pipelineStages EXCEPT ![r] = stages]
                     /\ stageStart' = [stageStart EXCEPT ![r] = validationEnd]
                     /\ UNCHANGED <<file, calls, failedStage, raised, thrown, result>>
    /\ UNCHANGED <<transcript, llmOutput, received>>
    /\ UNCHANGED <<reporterVars, validatorVars, callerVars, haikuVars, toolVars, agentVars, metadataError>>

\* await audioFile.arrayBuffer() settles; on success the whisper call is issued
ArrayBufferSettles(r) ==
    /\ pc[r] = "arrayBuffer"
    /\ \E a \in ArrayBufferAnswers, d \in ClockDeltas :
         /\ Tick(d)
         /\ received' = [received EXCEPT ![r] = Append(@, a)]
         /\ IF a.kind = "reject"
            THEN StageFails(r, "whisper", <<"Whisper transcription failed">>,
                            a.error, now + d)
            ELSE /\ pc' = [pc EXCEPT ![r] = "whisper"]
                 /\ calls' = [calls EXCEPT ![r] =
                                 Append(@, Call("whisper-large-v3", Undef))]
                 /\ UNCHANGED <<file, pipelineStages, failedStage, raised, thrown, result>>
    /\ UNCHANGED <<startTime, stageStart, transcript, llmOutput>>
    /\ UNCHANGED <<reporterVars, validatorVars, callerVars, haikuVars, toolVars, agentVars, metadataError>>

\* await env.AI.run('whisper-large-v3', ...) settles: the rest of stage 2 and
\* the start of stage 3 up to the llama call
WhisperSettles(r) ==
    /\ pc[r] = "whisper"
    /\ \E a \in WhisperAnswers, d \in ClockDeltas :
         LET whisperEnd == now + d
             caught == WhisperThrown(a)
         IN  /\ Tick(d)
             /\ received' = [received EXCEPT ![r] = Append(@, a)]
             /\ IF caught # <<>>
                THEN /\ StageFails(r, "whisper", <<"Whisper transcription failed">>,
                                   caught[1], whisperEnd)
                     /\ UNCHANGED <<transcript, stageStart>>
                ELSE /\ transcript' = [transcript EXCEPT ![r] = WhisperText(a)]
                     /\ pipelineStages' = [pipelineStages EXCEPT ![r] =
                            Append(@, StageResult("whisper", TRUE,
                                                  whisperEnd - stageStart[r], Undef))]
                     /\ stageStart' = [stageStart EXCEPT ![r] = whisperEnd]
                     /\ calls' = [calls EXCEPT ![r] =
                                     Append(@, Call("llama-3.3-70b", WhisperText(a)))]
                     /\ pc' = [pc EXCEPT ![r] = "llama"]
                     /\ UNCHANGED <<file, failedStage, raised, thrown, result>>
    /\ UNCHANGED <<startTime, llmOutput>>
    /\ UNCHANGED <<reporterVars, validatorVars, callerVars, haikuVars, toolVars, agentVars, metadataError>>

\* await env.AI.run('llama-3.3-70b', ...) settles: the rest of stage 3, the
\* check of the two texts, and the start of stage 4 up to the fetch
LlamaSettles(r) ==
    /\ pc[r] = "llama"
    /\ \E a \in LlamaAnswers, d \in ClockDeltas :
         LET llamaEnd == now + d
             caught == LlamaThrown(a)
             content == LlamaContent(a)
             stages == Append(pipelineStages[r],
                           StageResult("llama", TRUE, llamaEnd - stageStart[r], Undef))
         IN  /\ Tick(d)
             /\ received' = [received EXCEPT ![r] = Append(@, a)]
             /\ IF caught # <<>>
                THEN /\ StageFails(r, "llama", <<"LLM processing failed">>,
                                   caught[1], llamaEnd)
                     /\ UNCHANGED <<llmOutput, stageStart>>
                ELSE /\ llmOutput' = [llmOutput EXCEPT ![r] = content]
                     /\ IF validatePipelineStagesThrows(transcript[r], content)
                        THEN /\ Rejects(r, TypeErrorOf("trim is not a function"),
                                        TypeErrorOf("trim is not a function"),
                                        "response-assembly", stages)
                             /\ UNCHANGED stageStart
                        ELSE IF ~validatePipelineStages(transcript[r], content)
                        THEN /\ Rejects(r,
                                   PipelineError(<<"Pipeline validation failed">>,
                                                 "response-assembly", Undef),
                                   PipelineError(<<"Pipeline validation failed">>,
                                                 "response-assembly", Undef),
                                   "response-assembly",
                                   Append(stages,
                                       StageResult("response-assembly", FALSE, 0,
                                                   Str(<<"Invalid pipeline output">>))))
                             /\ UNCHANGED stageStart
                        ELSE /\ pipelineStages' = [pipelineStages EXCEPT ![r] = stages]
                             /\ stageStart' = [stageStart EXCEPT ![r] = llamaEnd]
                             /\ calls' = [calls EXCEPT ![r] =
                                             Append(@, Call("hume-tts", content))]
                             /\ pc' = [pc EXCEPT ![r] = "hume"]
                             /\ UNCHANGED <<file, failedStage, raised, thrown, result>>
    /\ UNCHANGED <<startTime, transcript>>
    /\ UNCHANGED <<reporterVars, validatorVars, callerVars, haikuVars, toolVars, agentVars, metadataError>>

\* await fetch(hume) settles and its body is read: the rest of stage 4, then
\* stage 5 and the return
HumeSettles(r) ==
    /\ pc[r] = "hume"
    /\ \E a \in HumeAnswers, d \in ClockDeltas, d2 \in ClockDeltas, d3 \in ClockDeltas :
         LET humeEnd == now + d
             caught == HumeThrown(a)
             audioBase64 == a.value
             assemblyStart == humeEnd
             metadata == extractAudioMetadata(file[r])
             assemblyEnd == assemblyStart + d2
             endTime == assemblyEnd + d3
             stages ==
                 pipelineStages[r]
                 \o <<StageResult("hume", TRUE, humeEnd - stageStart[r], Undef),
                      StageResult("response-assembly", TRUE,
                                  assemblyEnd - assemblyStart, Undef)>>
         IN  /\ received' = [received EXCEPT ![r] = Append(@, a)]
             /\ IF caught # <<>>
                THEN /\ d2 = 0
                     /\ d3 = 0
                     /\ Tick(d)
                     /\ StageFails(r, "hume", <<"Text-to-speech synthesis failed">>,
                                   caught[1], humeEnd)
                ELSE IF metadataError[r] # <<>>
                THEN /\ d2 = 0
                     /\ d3 = 0
                     /\ Tick(d)
                     /\ Rejects(r, metadataError[r][1], metadataError[r][1],
                                "response-assembly",
                                Append(pipelineStages[r],
                                       StageResult("hume", TRUE,
                                                   humeEnd - stageStart[r], Undef)))
                ELSE /\ now' = endTime
                     /\ clockBackward' = (clockBackward \/ d < 0 \/ d2 < 0 \/ d3 < 0)
                     /\ IF transcript[r].t = "undefined"
                        THEN Rejects(r,
                                 TypeErrorOf("Cannot read properties of undefined (reading 'length')"),
                                 TypeErrorOf("Cannot read properties of undefined (reading 'length')"),
                                 "response-assembly", stages)
                        ELSE /\ result' = [result EXCEPT ![r] =
                                   <<ProcessedAudioResult(audioBase64, metadata,
                                         transcript[r], endTime - startTime[r], stages)>>]
                             /\ pipelineStages' = [pipelineStages EXCEPT ![r] = stages]
                             /\ pc' = [pc EXCEPT ![r] = "returned"]
                             /\ UNCHANGED <<file, calls, failedStage, raised, thrown>>
    /\ UNCHANGED <<startTime, stageStart, transcript, llmOutput>>
    /\ UNCHANGED <<reporterVars, validatorVars, callerVars, haikuVars, toolVars, agentVars, metadataError>>

Next ==
    \/ \E r \in Runs : Start(r)
    \/ \E r \in Runs : ArrayBufferSettles(r)
    \/ \E r \in Runs : WhisperSettles(r)
    \/ \E r \in Runs : LlamaSettles(r)
    \/ \E r \in Runs : HumeSettles(r)

Spec == Init /\ [][Next]_vars

-----------------------------------------------------------------------------
(* A run on a File whose properties may throw when extractAudioMetadata reads them *)

\* what the reading of file.lastModified may throw
MetadataErrors ==
    { MkError("Error", <<"Metadata extraction failed">>),
      TypeErrorOf("Illegal invocation") }

AssemblyInit ==
    /\ pc = [r \in Runs |-> "idle"]
    /\ file = [r \in Runs |->
                  IF r = "r1"
                  THEN [size |-> 1024, type |-> "audio/wav", name |-> <<"test", "wav">>]
                  ELSE NoFile]
    /\ metadataError \in
           {m \in [Runs -> {<<>>} \cup {<<e>> : e \in MetadataErrors}] : m["r2"] = <<>>}
    /\ NoReports
    /\ NoCandidate
    /\ NoCaller
    /\ NoHaiku
    /\ NoTool
    /\ NoAgent
    /\ now = 0
    /\ startTime = [r \in Runs |-> 0]
    /\ stageStart = [r \in Runs |-> 0]
    /\ pipelineStages = [r \in Runs |-> <<>>]
    /\ transcript = [r \in Runs |-> Undef]
    /\ llmOutput = [r \in Runs |-> Undef]
    /\ calls = [r \in Runs |-> <<>>]
    /\ received = [r \in Runs |-> <<>>]
    /\ failedStage = [r \in Runs |-> <<>>]
    /\ raised = [r \in Runs |-> <<>>]
    /\ thrown = [r \in Runs |-> <<>>]
    /\ result = [r \in Runs |-> <<>>]
    /\ clockBackward = FALSE

AssemblySpec == AssemblyInit /\ [][Next]_vars

-----------------------------------------------------------------------------
(* The error reporter: calls of handlePipelineError within one process *)

\* the process before any call: no run of the pipeline is modelled
ReporterInit ==
    /\ pc = [r \in Runs |-> "idle"]
    /\ file = [r \in Runs |-> NoFile]
    /\ NoReports
    /\ NoCandidate
    /\ NoCaller
    /\ NoHaiku
    /\ NoTool
    /\ NoAgent
    /\ OrdinaryFiles
    /\ now = 0
    /\ startTime = [r \in Runs |-> 0]
    /\ stageStart = [r \in Runs |-> 0]
    /\ pipelineStages = [r \in Runs |-> <<>>]
    /\ transcript = [r \in Runs |-> Undef]
    /\ llmOutput = [r \in Runs |-> Undef]
    /\ calls = [r \in Runs |-> <<>>]
    /\ received = [r \in Runs |-> <<>>]
    /\ failedStage = [r \in Runs |-> <<>>]
    /\ raised = [r \in Runs |-> <<>>]
    /\ thrown = [r \in Runs |-> <<>>]
    /\ result = [r \in Runs |-> <<>>]
    /\ clockBackward = FALSE

\* the h-th call of handlePipelineError(error, stage), d ms after the
\* previous reading of the clock
HandleError(h) ==
    /\ reports[h] = <<>>
    /\ \A g \in DOMAIN HandlerCalls : g < h => reports[g] # <<>>
    /\ \E error \in ReportedErrors, stage \in FallbackStages,
          d \in ClockDeltas, random \in RandomTexts :
         /\ Tick(d)
         /\ reports' = [reports EXCEPT ![h] =
                <<[error |-> error, stage |-> stage,
                   response |-> handlePipelineError(error, stage, now + d, random)]>>]
    /\ UNCHANGED <<haikuVars, toolVars, agentVars, runVars, validatorVars, callerVars>>

ReporterNext == \E h \in DOMAIN HandlerCalls : HandleError(h)

ReporterSpec == ReporterInit /\ [][ReporterNext]_vars

-----------------------------------------------------------------------------
(* Two runs of processVoicePipeline in one process, their awaits interleaved *)

\* the files of the two runs
ConcurrentFiles ==
    { [size |-> 1024, type |-> "audio/wav", name |-> <<"test", "wav">>],
      [size |-> MAX_FILE_SIZE + 1, type |-> "audio/wav", name |-> <<"big", "wav">>] }

\* the answers the providers give the two runs: a call is rejected with an
\* Error, or it resolves with a text, a blank text or an audio
PlainAnswer(a) ==
    /\ a.kind \in {"resolve", "reject", "object", "content", "body", "audio"}
    /\ a.error \in {NoError, MkError("Error", <<"API error">>)}
    /\ a.value \in {Undef, Str(<<"a">>), Str(<<" ">>), Str(<<"dGVzdA==">>),
                     Str(<<"Hume TTS service error">>)}

\* the step taken was given a plain answer
PlainlyAnswered(r) ==
    received'[r] # received[r] => PlainAnswer(received'[r][Len(received'[r])])

\* the step taken was given a plain answer, and the clock ran forward, to
\* MaxTick at most
PlainStep(r) == PlainlyAnswered(r) /\ now' \in now..MaxTick

ConcurrentInit ==
    /\ pc = [r \in Runs |-> "idle"]
    /\ file \in [Runs -> ConcurrentFiles]
    /\ NoReports
    /\ NoCandidate
    /\ NoCaller
    /\ NoHaiku
    /\ NoTool
    /\ NoAgent
    /\ OrdinaryFiles
    /\ now = 0
    /\ startTime = [r \in Runs |-> 0]
    /\ stageStart = [r \in Runs |-> 0]
    /\ pipelineStages = [r \in Runs |-> <<>>]
    /\ transcript = [r \in Runs |-> Undef]
    /\ llmOutput = [r \in Runs |-> Undef]
    /\ calls = [r \in Runs |-> <<>>]
    /\ received = [r \in Runs |-> <<>>]
    /\ failedStage = [r \in Runs |-> <<>>]
    /\ raised = [r \in Runs |-> <<>>]
    /\ thrown = [r \in Runs |-> <<>>]
    /\ result = [r \in Runs |-> <<>>]
    /\ clockBackward = FALSE

ConcurrentNext ==
    \/ \E r \in Runs : Start(r) /\ PlainStep(r)
    \/ \E r \in Runs : ArrayBufferSettles(r) /\ PlainStep(r)
    \/ \E r \in Runs : WhisperSettles(r) /\ PlainStep(r)
    \/ \E r \in Runs : LlamaSettles(r) /\ PlainStep(r)
    \/ \E r \in Runs : HumeSettles(r) /\ PlainStep(r)

ConcurrentSpec == ConcurrentInit /\ [][ConcurrentNext]_vars

-----------------------------------------------------------------------------
(* A run and its caller: the time budget of a request and its cancellation *)

\* Timeout: 60 seconds per request
RequestTimeoutMs == 60000

\* the positions at which a run waits for an awaited call
Waiting == {"arrayBuffer", "whisper", "llama", "hume"}

\* the call run r waits for stays unanswered until the run has outrun the
\* time budget of its request
Overrun(r) ==
    /\ pc[r] \in Waiting
    /\ overdue[r] = <<>>
    /\ now' = now + RequestTimeoutMs + 1
    /\ overdue' = [overdue EXCEPT ![r] = <<StageInFlight(pc[r])>>]
    /\ UNCHANGED <<runVars, reporterVars, validatorVars, clockBackward,
                   request, response, invocations, cancelled, haikuVars, toolVars, agentVars>>

\* the caller of run r gives the run up while it waits for an awaited call
Cancel(r) ==
    /\ pc[r] \in Waiting
    /\ cancelled[r] = <<>>
    /\ cancelled' = [cancelled EXCEPT ![r] = <<Len(calls[r])>>]
    /\ UNCHANGED <<runVars, reporterVars, validatorVars, now, clockBackward,
                   request, response, invocations, overdue, haikuVars, toolVars, agentVars>>

\* the step taken was given a plain answer, within the millisecond
SteadyStep(r) == PlainlyAnswered(r) /\ now' = now

CallerNext ==
    \/ \E r \in Runs : Start(r) /\ SteadyStep(r)
    \/ \E r \in Runs : ArrayBufferSettles(r) /\ SteadyStep(r)
    \/ \E r \in Runs : WhisperSettles(r) /\ SteadyStep(r)
    \/ \E r \in Runs : LlamaSettles(r) /\ SteadyStep(r)
    \/ \E r \in Runs : HumeSettles(r) /\ SteadyStep(r)
    \/ \E r \in Runs : Overrun(r)
    \/ \E r \in Runs : Cancel(r)

CallerSpec == Init /\ [][CallerNext]_vars

-----------------------------------------------------------------------------
(* The service: the handler of POST /process-voice around one run *)

\* the requests the service handles
Requests == {"r1"}

\* the files a request carries in its 'audio' field
RequestFiles ==
    { [size |-> 1024, type |-> "audio/wav", name |-> <<"test", "wav">>],
      [size |-> MAX_FILE_SIZE + 1, type |-> "audio/wav", name |-> <<"big", "wav">>],
      [size |-> 1024, type |-> "audio/x-flac", name |-> <<"song", "flac">>],
      [size |-> 1024, type |-> "text/plain", name |-> <<"notes", "txt">>] }

\* await c.req.formData() and formData.get('audio'): the parsing rejects, or
\* the form has no 'audio' field, a text field of that name, or a File
FormAnswers ==
    {[kind |-> "reject", error |-> e, audio |-> NoFile] :
        e \in {MkError("TypeError", <<"Could not parse content as FormData.">>),
               MkError("NonError", <<"rate limited">>)}}
    \cup {[kind |-> k, error |-> NoError, audio |-> NoFile] : k \in {"missing", "text"}}
    \cup {[kind |-> "file", error |-> NoError, audio |-> f] : f \in RequestFiles}

\* the media types of the model whose text begins with 'audio/'
AudioMediaTypes ==
    {"audio/wav", "audio/mp3", "audio/mpeg", "audio/mp4", "audio/webm",
     "audio/m4a", "audio/mpga", "audio/x-flac"}

\* a check of the media type that lets every type through
StartsWith_AnyType(type, prefix) == TRUE

\* String.prototype.startsWith on a media type
StartsWith(type, prefix) == prefix = "audio/" /\ type \in AudioMediaTypes

\* atob(text): <<the decoded text>>, or <<>> when it throws because the text
\* is no base64
Atob(text) ==
    CASE text = <<"dGVzdA==">> -> << <<"test">> >>
      [] text = <<>> -> << <<>> >>
      [] OTHER -> <<>>

HttpResponse(status, body, headers) ==
    [status |-> status, body |-> body, headers |-> headers]

\* the JSON error body of the handler's own checks: no stage, no details
RequestError(error, ms, random) ==
    ErrorResponse(error, "", Undef, ToISOString(ms), generateRequestId(ms, random))

\* Math.random().toString(36) as the handler's generateRequestId reads it
RequestRandomTexts == {t \in RandomTexts : Len(t) \in {3, 13} /\ t[Len(t)] # "k"}

\* the handler up to its call of processVoicePipeline: the form is read and
\* the two checks are made; the error body is stamped within the millisecond
\* of the last reading of the clock
ReceiveRequest(r) ==
    /\ r \in Requests
    /\ request[r] = <<>>
    /\ \E form \in FormAnswers, random \in RequestRandomTexts :
         LET ms == now
             answered(status, error) ==
                 /\ response' = [response EXCEPT ![r] =
                        <<HttpResponse(status, RequestError(error, ms, random), <<>>)>>]
                 /\ UNCHANGED <<file, invocations>>
         IN  /\ request' = [request EXCEPT ![r] = <<form>>]
             /\ IF form.kind = "reject"
                THEN answered(400, IF InstanceOfError(form.error)
                                   THEN Str(form.error.message)
                                   ELSE Str(<<"Invalid request format">>))
                ELSE IF form.kind = "missing"
                THEN answered(400, Str(<<"No audio file provided">>))
                ELSE IF form.kind = "text"
                THEN answered(400, Str(TypeErrorOf(
                         "Cannot read properties of undefined (reading 'startsWith')").message))
                ELSE IF ~StartsWith(form.audio.type, "audio/")
                THEN answered(400, Str(<<"Invalid file type: ", form.audio.type,
                                         ". Expected audio format.">>))
                ELSE /\ file' = [file EXCEPT ![r] = form.audio]
                     /\ invocations' = [invocations EXCEPT ![r] = @ + 1]
                     /\ UNCHANGED response
    /\ UNCHANGED <<now, clockBackward>>
    /\ UNCHANGED <<pc, startTime, stageStart, pipelineStages, transcript, llmOutput,
                   calls, received, failedStage, raised, thrown, result>>
    /\ UNCHANGED <<reporterVars, validatorVars, cancelled, overdue, haikuVars, toolVars, agentVars,
                   metadataError>>

\* the status of the inner catch block: 422 for a PipelineError, else 500
ErrorStatus(e) == IF InstanceOfPipelineError(e) THEN 422 ELSE 500

\* the handler after await processVoicePipeline(audioFile, env) has settled
Respond(r) ==
    /\ r \in Requests
    /\ invocations[r] > 0
    /\ pc[r] \in {"returned", "thrown"}
    /\ response[r] = <<>>
    /\ \E random \in RequestRandomTexts :
         LET ms == now
             failed(e, stage) ==
                 response' = [response EXCEPT ![r] =
                     <<HttpResponse(ErrorStatus(e),
                                    handlePipelineError(e, stage, ms, random), <<>>)>>]
             decodeError == MkError("InvalidCharacterError",
                                    <<"atob() called with invalid base64-encoded data.">>)
         IN  IF pc[r] = "thrown"
             THEN LET e == WithStack(thrown[r][1], V8Stack(thrown[r][1]))
                  IN  failed(e, IF InstanceOfPipelineError(e) THEN e.stage ELSE "unknown")
             ELSE LET decoded == Atob(result[r][1].audioBase64.s)
                      metadata == result[r][1].metadata
                  IN  IF decoded = <<>>
                      THEN failed(WithStack(decodeError, V8Stack(decodeError)), "unknown")
                      ELSE /\ response' = [response EXCEPT ![r] =
                                 <<HttpResponse(200, Str(decoded[1]),
                                      [contentType |-> "audio/wav",
                                       processingTimeMs |-> ToString(metadata.processingTimeMs),
                                       transcriptLength |-> ToString(metadata.transcriptLength[1]),
                                       pipelineStages |-> metadata.pipelineStages])>>]
    /\ UNCHANGED <<now, clockBackward>>
    /\ UNCHANGED <<runVars, reporterVars, validatorVars, request, invocations,
                   cancelled, overdue, haikuVars, toolVars, agentVars>>

ServiceInit ==
    /\ pc = [r \in Runs |-> "idle"]
    /\ file = [r \in Runs |-> NoFile]
    /\ NoReports
    /\ NoCandidate
    /\ NoCaller
    /\ NoHaiku
    /\ NoTool
    /\ NoAgent
    /\ OrdinaryFiles
    /\ now = 0
    /\ startTime = [r \in Runs |-> 0]
    /\ stageStart = [r \in Runs |-> 0]
    /\ pipelineStages = [r \in Runs |-> <<>>]
    /\ transcript = [r \in Runs |-> Undef]
    /\ llmOutput = [r \in Runs |-> Undef]
    /\ calls = [r \in Runs |-> <<>>]
    /\ received = [r \in Runs |-> <<>>]
    /\ failedStage = [r \in Runs |-> <<>>]
    /\ raised = [r \in Runs |-> <<>>]
    /\ thrown = [r \in Runs |-> <<>>]
    /\ result = [r \in Runs |-> <<>>]
    /\ clockBackward = FALSE

ServiceNext ==
    \/ \E r \in Runs : ReceiveRequest(r)
    \/ Next
    \/ \E r \in Runs : Respond(r)

ServiceSpec == ServiceInit /\ [][ServiceNext]_vars

-----------------------------------------------------------------------------
(* The model layer: validateAudioFile applied to one File, and one call of  *)
(* validatePipelineStages                                                  *)

ValidatorInit ==
    /\ pc = [r \in Runs |-> "idle"]
    /\ file = [r \in Runs |-> NoFile]
    /\ NoReports
    /\ candidate \in CandidateFiles
    /\ validated = <<>>
    /\ checked = <<>>
    /\ NoCaller
    /\ NoHaiku
    /\ NoTool
    /\ NoAgent
    /\ OrdinaryFiles
    /\ now = 0
    /\ startTime = [r \in Runs |-> 0]
    /\ stageStart = [r \in Runs |-> 0]
    /\ pipelineStages = [r \in Runs |-> <<>>]
    /\ transcript = [r \in Runs |-> Undef]
    /\ llmOutput = [r \in Runs |-> Undef]
    /\ calls = [r \in Runs |-> <<>>]
    /\ received = [r \in Runs |-> <<>>]
    /\ failedStage = [r \in Runs |-> <<>>]
    /\ raised = [r \in Runs |-> <<>>]
    /\ thrown = [r \in Runs |-> <<>>]
    /\ result = [r \in Runs |-> <<>>]
    /\ clockBackward = FALSE

\* const validation = validateAudioFile(file)
Validate ==
    /\ validated = <<>>
    /\ validated' = <<validateAudioFile(candidate)>>
    /\ UNCHANGED <<haikuVars, toolVars, agentVars, runVars, reporterVars, callerVars, candidate, checked, now, clockBackward>>

\* validatePipelineStages(transcript, llmOutput) called with two values: it
\* returns true or false, or throws
CheckStages ==
    /\ checked = <<>>
    /\ \E t \in TextValues, l \in TextValues :
         checked' = <<[transcript |-> t, llmOutput |-> l,
                       outcome |-> IF validatePipelineStagesThrows(t, l) THEN "throws"
                                   ELSE IF validatePipelineStages(t, l) THEN "true"
                                   ELSE "false"]>>
    /\ UNCHANGED <<haikuVars, toolVars, agentVars, runVars, reporterVars, callerVars, candidate, validated, now, clockBackward>>

ValidatorNext == Validate \/ CheckStages

ValidatorSpec == ValidatorInit /\ [][ValidatorNext]_vars

-----------------------------------------------------------------------------
(* git-haiku: processGitHaiku and the model functions it calls *)

\* the longest commits array handed to processGitHaiku
MaxCommits == 2

\* an array value
ArrayOf(items) == [t |-> "array", s |-> items]

\* what an element of the commits array may be: a string, undefined, or
\* another value that is no string (null, a number)
CommitValues == {Undef, NonString} \cup {Str(text) : text \in Texts}

\* the commits argument: missing, or an array of up to MaxCommits elements
CommitInputs == {Undef} \cup {ArrayOf(items) : items \in SeqsUpTo(CommitValues, MaxCommits)}

\* typeof commit !== 'string' || commit.trim() === ''
BadCommit(commit) == commit.t # "string" \/ Trim(commit.s) = <<>>

\* a validation that looks at the first commit only
validateCommits_FirstOnly(c) ==
    IF ~(c.t = "array") \/ Len(c.s) = 0
    THEN [valid |-> FALSE, error |-> Str(<<"Commits array cannot be empty">>)]
    ELSE IF BadCommit(c.s[1])
    THEN [valid |-> FALSE,
          error |-> Str(<<"All commit messages must be non-empty strings">>)]
    ELSE [valid |-> TRUE, error |-> Undef]

\* validateCommits(commits)
validateCommits(c) ==
    IF ~(c.t = "array") \/ Len(c.s) = 0
    THEN [valid |-> FALSE, error |-> Str(<<"Commits array cannot be empty">>)]
    ELSE IF \E i \in DOMAIN c.s : BadCommit(c.s[i])
    THEN [valid |-> FALSE,
          error |-> Str(<<"All commit messages must be non-empty strings">>)]
    ELSE [valid |-> TRUE, error |-> Undef]

\* generateHaikuPrompt(commits): the fixed text around commits.join('\n')
generateHaikuPrompt(c) ==
    <<"You are a poetic AI ... Given these git commit messages:">>
    \o Join([i \in DOMAIN c.s |-> c.s[i].s], <<"\n">>)
    \o <<"Create a single haiku ... Format as three lines, one line per row.">>

\* formatHaikuResponse(rawResponse) throws: rawResponse is truthy and has no trim
formatHaikuResponseThrows(raw) == Truthy(raw) /\ raw.t # "string"

\* formatHaikuResponse(rawResponse)
formatHaikuResponse(raw) == IF ~Truthy(raw) THEN Str(<<>>) ELSE Str(Trim(raw.s))

\* await env.AI.run('@cf/meta/llama-3.3-70b-instruct-fp8-fast', { prompt }):
\* rejects, resolves with null or undefined, or resolves with an object whose
\* response field holds value (Undef: the object has no response field)
HaikuAnswers ==
    {Answer("reject", Undef, e, 0) : e \in Rejections}
    \cup {Answer("nullish", Undef, NoError, 0)}
    \cup {Answer("object", v, NoError, 0) : v \in TextValues}

maxAttempts == 3

FailedMessage ==
    Str(<<"Error: Failed to generate haiku after multiple attempts. Please try again later.">>)

\* processGitHaiku(commits, env) up to its first await: validation, the
\* prompt, and the first call of the model
HaikuStart ==
    /\ hpc = "idle"
    /\ LET validation == validateCommits(commits)
       IN  IF ~validation.valid
           THEN /\ haiku' = <<Str(<<"Error: ">> \o validation.error.s)>>
                /\ hpc' = "returned"
                /\ UNCHANGED aiCalls
           ELSE /\ aiCalls' = Append(aiCalls, generateHaikuPrompt(commits))
                /\ hpc' = "ai"
                /\ UNCHANGED haiku
    /\ attempt' = 0
    /\ UNCHANGED <<commits, aiAnswers, formatCalls>>
    /\ UNCHANGED <<runVars, now, clockBackward, reporterVars, validatorVars, callerVars,
                   toolVars, agentVars>>

\* the catch block of the loop, and the next turn of the loop if there is one
Caught(prompt) ==
    /\ attempt' = attempt + 1
    /\ IF attempt + 1 >= maxAttempts
       THEN /\ haiku' = <<FailedMessage>>
            /\ hpc' = "returned"
            /\ UNCHANGED aiCalls
       ELSE /\ aiCalls' = Append(aiCalls, prompt)
            /\ UNCHANGED <<haiku, hpc>>

\* await env.AI.run(...) settles: the rest of the try block, or the catch
\* block and the next call
HaikuAISettles ==
    /\ hpc = "ai"
    /\ \E a \in HaikuAnswers :
         /\ aiAnswers' = Append(aiAnswers, a)
         /\ IF a.kind \in {"reject", "nullish"}
            THEN /\ Caught(aiCalls[Len(aiCalls)])
                 /\ UNCHANGED formatCalls
            ELSE /\ formatCalls' = Append(formatCalls, a.value)
                 /\ IF formatHaikuResponseThrows(a.value)
                    THEN Caught(aiCalls[Len(aiCalls)])
                    ELSE /\ haiku' = <<formatHaikuResponse(a.value)>>
                         /\ hpc' = "returned"
                         /\ UNCHANGED <<attempt, aiCalls>>
    /\ UNCHANGED commits
    /\ UNCHANGED <<runVars, now, clockBackward, reporterVars, validatorVars, callerVars,
                   toolVars, agentVars>>

HaikuInit ==
    /\ pc = [r \in Runs |-> "idle"]
    /\ file = [r \in Runs |-> NoFile]
    /\ NoReports
    /\ NoCandidate
    /\ NoCaller
    /\ hpc = "idle"
    /\ commits \in CommitInputs
    /\ attempt = 0
    /\ aiCalls = <<>>
    /\ aiAnswers = <<>>
    /\ formatCalls = <<>>
    /\ haiku = <<>>
    /\ NoTool
    /\ NoAgent
    /\ OrdinaryFiles
    /\ now = 0
    /\ startTime = [r \in Runs |-> 0]
    /\ stageStart = [r \in Runs |-> 0]
    /\ pipelineStages = [r \in Runs |-> <<>>]
    /\ transcript = [r \in Runs |-> Undef]
    /\ llmOutput = [r \in Runs |-> Undef]
    /\ calls = [r \in Runs |-> <<>>]
    /\ received = [r \in Runs |-> <<>>]
    /\ failedStage = [r \in Runs |-> <<>>]
    /\ raised = [r \in Runs |-> <<>>]
    /\ thrown = [r \in Runs |-> <<>>]
    /\ result = [r \in Runs |-> <<>>]
    /\ clockBackward = FALSE

HaikuNext == HaikuStart \/ HaikuAISettles

HaikuSpec == HaikuInit /\ [][HaikuNext]_vars

-----------------------------------------------------------------------------
(* Properties of processVoicePipeline *)

Ended(r) == pc[r] \in {"returned", "thrown"}

\* position of a stage in the fixed order, counted from 1 (its index plus one)
StagePosition(stage) == CHOOSE i \in DOMAIN PipelineStageOrder : PipelineStageOrder[i] = stage

AdapterStages == {"validation", "whisper", "llama", "hume"}

\* the stage an external call belongs to
CallStage(c) ==
    CASE c.target = "whisper-large-v3" -> "whisper"
      [] c.target = "llama-3.3-70b" -> "llama"
      [] c.target = "hume-tts" -> "hume"

Called(r, stage) == \E i \in DOMAIN calls[r] : CallStage(calls[r][i]) = stage

\* C1 as stated: when a run ends, its log holds (index of the first failing
\* stage) + 1 outcomes, or 5 when the run succeeded.
C1_Original ==
    \A r \in Runs :
        Ended(r) =>
            Len(pipelineStages[r]) =
                IF pc[r] = "returned" THEN 5 ELSE StagePosition(failedStage[r][1])

\* C1, amended: when a run ends, its log holds 5 outcomes if it succeeded and
\* (index of the failing stage) + 1 if validation, whisper, llama or hume
\* failed; a run that fails at the check of the two texts (tagged
\* response-assembly) ends with 4 outcomes, the fourth being the failed
\* response-assembly entry, or with the 3 successful ones when the check
\* itself threw on a text that is no string.
C1_LogLength ==
    \A r \in Runs :
        Ended(r) =>
            LET n == Len(pipelineStages[r])
                log == pipelineStages[r]
            IN  IF pc[r] = "returned" THEN n = 5
                ELSE IF failedStage[r][1] \in AdapterStages
                THEN n = StagePosition(failedStage[r][1])
                ELSE \/ /\ n = 4
                        /\ log[4].stage = "response-assembly"
                        /\ ~log[4].success
                        /\ raised[r][1].name = "PipelineError"
                     \/ /\ n = 3
                        /\ raised[r][1].name = "TypeError"
                        /\ NonString \in {transcript[r], llmOutput[r]}

\* a run that failed at the check of the two texts, with 4 outcomes logged
C1_Witness ==
    \E r \in Runs :
        /\ pc[r] = "thrown"
        /\ failedStage[r] = <<"response-assembly">>
        /\ Len(pipelineStages[r]) = 4

\* C2: fail-fast.  Once a stage's outcome is logged as failed, the run has
\* issued no external call of a later stage: none at all after a failed
\* validation, neither llama nor hume after a failed whisper, no hume after a
\* failed llama.
C2_FailFast ==
    \A r \in Runs :
        \A i \in DOMAIN pipelineStages[r] :
            ~pipelineStages[r][i].success =>
                /\ Ended(r)
                /\ \A j \in DOMAIN calls[r] :
                       StagePosition(CallStage(calls[r][j]))
                           <= StagePosition(pipelineStages[r][i].stage)
                /\ (pipelineStages[r][i].stage = "validation" => calls[r] = <<>>)

\* the transcriber rejected: its call is the only one the run has issued
C2_Witness ==
    \E r \in Runs :
        /\ pc[r] = "thrown"
        /\ failedStage[r] = <<"whisper">>
        /\ Len(received[r]) = 2 /\ received[r][2].kind = "reject"
        /\ Len(calls[r]) = 1

\* C3: whenever the function returns, the returned pipelineStages holds
\* exactly the five stages, in order, each with success = true.
C3_ResultAfterFiveSuccesses ==
    \A r \in Runs :
        (pc[r] = "returned" \/ result[r] # <<>>) =>
            /\ pc[r] = "returned" /\ result[r] # <<>>
            /\ LET log == result[r][1].metadata.pipelineStages
               IN  /\ Len(log) = 5
                   /\ \A i \in 1..5 :
                          log[i].stage = PipelineStageOrder[i] /\ log[i].success

C3_Witness == \E r \in Runs : pc[r] = "returned" /\ result[r] # <<>>

\* C4: the stage of the PipelineError that ends a run is the stage whose work
\* failed, for validation, whisper, llama and hume: the outer catch rethrows
\* the tagged error as it is.
C4_StageNeverRelabelled ==
    \A r \in Runs :
        (pc[r] = "thrown" /\ failedStage[r][1] \in AdapterStages) =>
            /\ thrown[r][1].name = "PipelineError"
            /\ thrown[r][1].stage = failedStage[r][1]
            /\ (raised[r][1].name = "PipelineError" => thrown[r][1] = raised[r][1])

\* the synthesizer failed and the run ended with an error tagged hume
C4_Witness ==
    \E r \in Runs :
        /\ pc[r] = "thrown"
        /\ failedStage[r] = <<"hume">>
        /\ thrown[r][1].stage = "hume"


Failures(r) == {i \in DOMAIN pipelineStages[r] : ~pipelineStages[r][i].success}

\* C5 as stated: a run ends either by returning a complete result whose log
\* has no failed outcome, or by throwing one PipelineError naming one stage,
\* and then the log has exactly one failed outcome, its last entry.
C5_Original ==
    \A r \in Runs :
        Ended(r) =>
            \/ /\ pc[r] = "returned"
               /\ result[r] # <<>> /\ thrown[r] = <<>>
               /\ Failures(r) = {}
               /\ result[r][1].metadata.pipelineStages = pipelineStages[r]
            \/ /\ pc[r] = "thrown"
               /\ result[r] = <<>> /\ Len(thrown[r]) = 1
               /\ thrown[r][1].name = "PipelineError"
               /\ Includes(PipelineStageOrder, thrown[r][1].stage)
               /\ Failures(r) = {Len(pipelineStages[r])}

\* a text that is a string and is empty or all white space
BlankText(v) == v.t = "string" /\ \A i \in DOMAIN v.s : IsWhitespace(v.s[i])

\* the transcriber and the generator of run r both succeeded
BothTextsProduced(r) ==
    /\ Len(pipelineStages[r]) >= 3
    /\ pipelineStages[r][2].stage = "whisper" /\ pipelineStages[r][2].success
    /\ pipelineStages[r][3].stage = "llama" /\ pipelineStages[r][3].success

\* C6 as stated: when the transcriber and the generator both succeed but the
\* transcript or the response is empty or whitespace-only, the run fails
\* tagged response-assembly, a failed response-assembly outcome with
\* durationMs 0 follows the three successful ones, and hume is never called.
C6_Original ==
    \A r \in Runs :
        (BothTextsProduced(r) /\ (BlankText(transcript[r]) \/ BlankText(llmOutput[r]))) =>
            /\ pc[r] = "thrown"
            /\ thrown[r][1].name = "PipelineError"
            /\ thrown[r][1].stage = "response-assembly"
            /\ Len(pipelineStages[r]) = 4
            /\ \A i \in 1..3 : pipelineStages[r][i].success
            /\ pipelineStages[r][4].stage = "response-assembly"
            /\ ~pipelineStages[r][4].success
            /\ pipelineStages[r][4].durationMs = 0
            /\ ~Called(r, "hume")

\* C7: an error raised inside a run that is no PipelineError never escapes as
\* it is and is never dropped: the run ends by throwing a PipelineError whose
\* stage is the stage whose work was under way.
C7_RawErrorsWrapped ==
    \A r \in Runs :
        (raised[r] # <<>> /\ raised[r][1].name # "PipelineError") =>
            /\ pc[r] = "thrown"
            /\ result[r] = <<>>
            /\ thrown[r][1].name = "PipelineError"
            /\ thrown[r][1].stage = failedStage[r][1]

\* the transcriber rejected with a plain Error and the run threw a
\* PipelineError tagged whisper
C7_Witness ==
    \E r \in Runs :
        /\ pc[r] = "thrown"
        /\ raised[r] # <<>> /\ raised[r][1].name = "Error"
        /\ failedStage[r] = <<"whisper">>
        /\ thrown[r][1].name = "PipelineError"

\* what env.AI.run answered to the whisper call and the llama call, and fetch
\* to the hume call (the first answer is arrayBuffer's)
Answered(r, n) == Len(received[r]) >= n
WhisperAnswer(r) == received[r][2]
LlamaAnswer(r) == received[r][3]
HumeAnswer(r) == received[r][4]

\* the provider answered with an object that has no text field
NoTextField(a) == a.kind = "object" /\ a.value = Undef

\* C8 as stated: a transcription answer without a text field makes the
\* whisper stage reject: the run fails tagged whisper, the whisper outcome is
\* failed and the generator is not invoked.
C8_Original ==
    \A r \in Runs :
        (Answered(r, 2) /\ NoTextField(WhisperAnswer(r))) =>
            /\ pc[r] = "thrown"
            /\ thrown[r][1].stage = "whisper"
            /\ ~pipelineStages[r][2].success
            /\ ~Called(r, "llama")

\* C8, amended: a transcription answer that is an object without a text field
\* does not fail the whisper stage: its outcome is logged as successful and
\* the generator is invoked with the undefined transcript; the run still
\* never returns a result and never calls the synthesizer, it ends tagged
\* llama or response-assembly.  Only an answer that is null or undefined
\* fails the whisper stage, tagged whisper, without a generator call.
C8_MissingTextField ==
    \A r \in Runs :
        /\ (Answered(r, 2) /\ NoTextField(WhisperAnswer(r))) =>
              /\ pipelineStages[r][2].stage = "whisper"
              /\ pipelineStages[r][2].success
              /\ Called(r, "llama")
              /\ calls[r][2].input = Undef
              /\ pc[r] # "returned" /\ pc[r] # "hume"
              /\ ~Called(r, "hume")
              /\ pc[r] = "thrown" => thrown[r][1].stage \in {"llama", "response-assembly"}
        /\ (Answered(r, 2) /\ WhisperAnswer(r).kind = "nullish") =>
              /\ pc[r] = "thrown"
              /\ thrown[r][1].stage = "whisper"
              /\ ~pipelineStages[r][2].success
              /\ ~Called(r, "llama")

\* the answer had no text field, the generator answered, and the run ended at
\* the check of the two texts
C8_Witness ==
    \E r \in Runs :
        /\ Answered(r, 3) /\ NoTextField(WhisperAnswer(r))
        /\ LlamaAnswer(r).kind = "content"
        /\ pc[r] = "thrown"
        /\ thrown[r][1].stage = "response-assembly"

\* the answer holds no choices, or a choice whose content is missing or empty
NoCompletionContent(a) ==
    \/ a.kind \in {"noChoices", "emptyChoices"}
    \/ a.kind = "content" /\ a.value \in {Undef, Str(<<>>)}

\* C9 as stated: a generation answer without completion content makes the
\* llama stage reject: the run fails tagged llama and the llama outcome is
\* failed.
C9_Original ==
    \A r \in Runs :
        (Answered(r, 3) /\ NoCompletionContent(LlamaAnswer(r))) =>
            /\ pc[r] = "thrown"
            /\ thrown[r][1].stage = "llama"
            /\ ~pipelineStages[r][3].success

\* C9, amended: an answer with no choices (no choices field, an empty choices
\* array, or a first choice without message) makes the llama stage reject:
\* the run fails tagged llama with a failed llama outcome.  An answer whose
\* first choice has a missing or empty content does not: the llama outcome is
\* logged as successful and the run fails at the check of the two texts,
\* tagged response-assembly.  In both cases the synthesizer is not called.
C9_NoCompletionContent ==
    \A r \in Runs :
        /\ (Answered(r, 3)
              /\ LlamaAnswer(r).kind \in {"noChoices", "emptyChoices", "noMessage"}) =>
              /\ pc[r] = "thrown"
              /\ thrown[r][1].stage = "llama"
              /\ Len(pipelineStages[r]) = 3
              /\ pipelineStages[r][3].stage = "llama"
              /\ ~pipelineStages[r][3].success
              /\ ~Called(r, "hume")
        /\ (Answered(r, 3) /\ LlamaAnswer(r).kind = "content"
              /\ LlamaAnswer(r).value \in {Undef, Str(<<>>)}) =>
              /\ pc[r] = "thrown"
              /\ thrown[r][1].stage = "response-assembly"
              /\ pipelineStages[r][3].stage = "llama"
              /\ pipelineStages[r][3].success
              /\ ~Called(r, "hume")

\* the generator answered with an empty choices array and the run ended
\* tagged llama
C9_Witness ==
    \E r \in Runs :
        /\ Answered(r, 3) /\ LlamaAnswer(r).kind = "emptyChoices"
        /\ pc[r] = "thrown"
        /\ thrown[r][1].stage = "llama"

\* piece is one of the pieces of text s
HasPiece(s, piece) == \E i \in DOMAIN s : s[i] = piece
\* text part occurs in text s
HasPart(s, part) ==
    \E i \in 1..(Len(s) + 1) :
        i + Len(part) - 1 <= Len(s) /\ SubSeq(s, i, i + Len(part) - 1) = part

\* the text-to-speech answer has a non-success status, zero generations, or a
\* first generation without an audio field
NoSpeech(a) ==
    \/ a.kind = "body" /\ ~ResponseOk(a.status)
    \/ a.kind = "emptyGenerations"
    \/ a.kind = "audio" /\ a.value = Undef

LastAnswer(r) == received[r][Len(received[r])]
ProviderCallRejected(r) ==
    /\ Len(received[r]) >= 2
    /\ LastAnswer(r).kind = "reject"

\* C11 as stated: whatever value the transcriber, generator or synthesizer
\* call rejected with, the PipelineError the run throws carries the message of
\* that value as its details.
C11_Original ==
    \A r \in Runs :
        ProviderCallRejected(r) =>
            /\ pc[r] = "thrown"
            /\ thrown[r][1].name = "PipelineError"
            /\ thrown[r][1].details = Str(LastAnswer(r).error.message)

\* the calls of run r that belong to a stage
CallsOf(r, stage) == {i \in DOMAIN calls[r] : CallStage(calls[r][i]) = stage}

LogInOrder(r) ==
    \A i, j \in DOMAIN pipelineStages[r] :
        i < j => StagePosition(pipelineStages[r][i].stage)
                     < StagePosition(pipelineStages[r][j].stage)

\* the entries of the log of run r for a stage
EntriesOf(r, stage) ==
    {i \in DOMAIN pipelineStages[r] : pipelineStages[r][i].stage = stage}

\* C13 as stated: at every point the log lists stages in the fixed order with
\* no stage twice, and each stage that was attempted and ended has exactly one
\* entry: while a run is under way every stage before the one in flight has
\* its entry, a returned run has all five, and a run that threw has an entry
\* for the stage that failed, the last one, marked failed.
C13_Original ==
    \A r \in Runs :
        /\ LogInOrder(r)
        /\ pc[r] \in {"arrayBuffer", "whisper", "llama", "hume"} =>
               \A i \in DOMAIN PipelineStageOrder :
                   Cardinality(EntriesOf(r, PipelineStageOrder[i])) =
                       IF i < StagePosition(StageInFlight(pc[r])) THEN 1 ELSE 0
        /\ pc[r] = "returned" =>
               \A i \in DOMAIN PipelineStageOrder :
                   Cardinality(EntriesOf(r, PipelineStageOrder[i])) = 1
        /\ pc[r] = "thrown" =>
               /\ EntriesOf(r, failedStage[r][1]) = {Len(pipelineStages[r])}
               /\ ~pipelineStages[r][Len(pipelineStages[r])].success

\* C14: when a run returns, metadata.transcriptLength is the length of the
\* text the transcriber answered with, white space included.
C14_TranscriptLength ==
    \A r \in Runs :
        pc[r] = "returned" =>
            /\ WhisperAnswer(r).kind = "object"
            /\ WhisperAnswer(r).value.t = "string"
            /\ result[r][1].metadata.transcriptLength
                   = <<Len(WhisperAnswer(r).value.s)>>

\* a run returned for a transcript that ends in white space
C14_Witness ==
    \E r \in Runs :
        /\ pc[r] = "returned"
        /\ WhisperAnswer(r).value = Str(<<"a", " ">>)
        /\ result[r][1].metadata.transcriptLength = <<2>>

\* C15 as stated: every outcome in the log of a run has durationMs >= 0.
C15_Original ==
    \A r \in Runs :
        \A i \in DOMAIN pipelineStages[r] : pipelineStages[r][i].durationMs >= 0

-----------------------------------------------------------------------------
(* Properties of handlePipelineError *)

Reported(h) == reports[h] # <<>>
ReportOf(h) == reports[h][1]

\* C16 as stated: for a PipelineError the record carries the error's own
\* stage and details, whatever the stage argument; for any other error it
\* carries the stage argument, the error's message as error, and a details
\* string.
C16_Original ==
    \A h \in DOMAIN HandlerCalls :
        Reported(h) =>
            LET e == ReportOf(h).error
                rec == ReportOf(h).response
            IN  IF e.name = "PipelineError"
                THEN rec.stage = e.stage /\ rec.details = e.details
                ELSE /\ rec.stage = ReportOf(h).stage
                     /\ rec.error = Str(e.message)
                     /\ rec.details.t = "string"

\* C16, amended: for a PipelineError the record carries the error's message,
\* its own stage and its own details, whatever the stage argument; for any
\* other error it carries the stage argument, as error the error's message
\* when that is not empty and 'Unknown error occurred' when it is, and as
\* details the first line of the error's stack when it has a non-empty stack
\* and undefined when it has none.
C16_ReportFields ==
    \A h \in DOMAIN HandlerCalls :
        Reported(h) =>
            LET e == ReportOf(h).error
                rec == ReportOf(h).response
            IN  IF e.name = "PipelineError"
                THEN /\ rec.error = Str(e.message)
                     /\ rec.stage = e.stage
                     /\ rec.details = e.details
                ELSE /\ rec.stage = ReportOf(h).stage
                     /\ rec.error = IF e.message = <<>>
                                    THEN Str(<<"Unknown error occurred">>)
                                    ELSE Str(e.message)
                     /\ rec.details = IF e.stack.t = "string" /\ e.stack.s # <<>>
                                      THEN Str(e.stack.s[1])
                                      ELSE Undef

\* a PipelineError tagged whisper was reported with the stage argument
\* 'unknown', and an Error with an empty message with the argument 'hume'
C16_Witness ==
    /\ Reported(1) /\ Reported(2)
    /\ ReportOf(1).error.name = "PipelineError"
    /\ ReportOf(1).error.stage = "whisper"
    /\ ReportOf(1).stage = "unknown"
    /\ ReportOf(1).response.stage = "whisper"
    /\ ReportOf(2).error.name = "Error"
    /\ ReportOf(2).error.message = <<>>
    /\ ReportOf(2).stage = "hume"
    /\ ReportOf(2).response.error = Str(<<"Unknown error occurred">>)

\* C17: two calls of handlePipelineError with the same error and the same
\* stage argument return records with the same error, stage and details.
C17_SameFieldsTwice ==
    (Reported(1) /\ Reported(2)
        /\ ReportOf(1).error = ReportOf(2).error
        /\ ReportOf(1).stage = ReportOf(2).stage) =>
        /\ ReportOf(1).response.error = ReportOf(2).response.error
        /\ ReportOf(1).response.stage = ReportOf(2).response.stage
        /\ ReportOf(1).response.details = ReportOf(2).response.details

\* the same Error was reported twice, at different readings of the clock
C17_Witness ==
    /\ Reported(1) /\ Reported(2)
    /\ ReportOf(1).error = ReportOf(2).error
    /\ ReportOf(1).error.name = "Error"
    /\ ReportOf(1).stage = ReportOf(2).stage
    /\ ReportOf(1).response.timestamp # ReportOf(2).response.timestamp
    /\ ReportOf(1).response.requestId # ReportOf(2).response.requestId

\* C18 as stated: any two calls of handlePipelineError within one process
\* return records with different requestId values.
C18_Original ==
    (Reported(1) /\ Reported(2)) =>
        ReportOf(1).response.requestId # ReportOf(2).response.requestId

-----------------------------------------------------------------------------
(* Properties of validateAudioFile *)

\* the part of a file name after its last dot, as written ("" without a dot)
WrittenExtension(name) == IF Len(name) >= 2 THEN name[Len(name)] ELSE ""

\* C19: a file of more than 25 MiB is not valid, with maxSizeExceeded true
\* and fileSize the size of the file; a file of exactly 25 MiB is not
\* rejected for its size.
C19_SizeLimit ==
    validated # <<>> =>
        LET v == validated[1]
        IN  /\ candidate.size > 25 * 1024 * 1024 =>
                   /\ ~v.valid
                   /\ v.details.maxSizeExceeded
                   /\ v.details.fileSize = candidate.size
            /\ candidate.size = 25 * 1024 * 1024 =>
                   /\ ~v.details.maxSizeExceeded
                   /\ v.details.fileSize = candidate.size
                   /\ (v.valid \/ v.details.unsupportedFormat)

\* a file one byte over the limit was rejected for its size
C19_Witness ==
    /\ validated # <<>>
    /\ candidate.size = 25 * 1024 * 1024 + 1
    /\ validated[1].details.maxSizeExceeded
    /\ validated[1].details.fileSize = 25 * 1024 * 1024 + 1

\* C20: a file of at most 25 MiB whose media type is one of the supported
\* types or whose extension is one of the supported extensions is valid, and
\* the result has no error.
C20_ValidAccepted ==
    validated # <<>> =>
        LET supportedType ==
                candidate.type \in {"audio/wav", "audio/mp3", "audio/mpeg",
                    "audio/mp4", "audio/webm", "audio/m4a", "audio/mpga"}
            supportedExtension ==
                WrittenExtension(candidate.name)
                    \in {"wav", "mp3", "m4a", "webm", "mp4", "mpeg", "mpga"}
        IN  (candidate.size <= 25 * 1024 * 1024
                /\ (supportedType \/ supportedExtension)) =>
                /\ validated[1].valid
                /\ validated[1].error = Undef

\* a file of exactly 25 MiB with an unsupported media type and the extension
\* wav was accepted
C20_Witness ==
    /\ validated # <<>>
    /\ candidate.size = 25 * 1024 * 1024
    /\ candidate.type = "text/plain"
    /\ candidate.name = <<"test", "wav">>
    /\ validated[1].valid

\* the media type and the extension of a file are both unsupported; the
\* extension is the last dot-separated piece of the lower-cased name
BothUnsupported(f) ==
    /\ f.type \notin {"audio/wav", "audio/mp3", "audio/mpeg", "audio/mp4",
                       "audio/webm", "audio/m4a", "audio/mpga"}
    /\ FileExtension(f.name)
           \notin {"wav", "mp3", "m4a", "webm", "mp4", "mpeg", "mpga"}

\* C21 as stated: every file whose media type and extension are both
\* unsupported fails validation with unsupportedFormat true.
C21_Original ==
    (validated # <<>> /\ BothUnsupported(candidate)) =>
        /\ ~validated[1].valid
        /\ validated[1].details.unsupportedFormat

\* C21, amended: a file of at most 25 MiB whose media type and extension are
\* both unsupported fails validation with unsupportedFormat true and
\* maxSizeExceeded false; a larger one fails too, but for its size, with
\* maxSizeExceeded true and unsupportedFormat false.
C21_UnsupportedFormat ==
    (validated # <<>> /\ BothUnsupported(candidate)) =>
        /\ ~validated[1].valid
        /\ validated[1].error.t = "string"
        /\ validated[1].details.unsupportedFormat = (candidate.size <= 25 * 1024 * 1024)
        /\ validated[1].details.maxSizeExceeded = (candidate.size > 25 * 1024 * 1024)

\* a text file of 1024 bytes was rejected for its format
C21_Witness ==
    /\ validated # <<>>
    /\ candidate.size = 1024
    /\ candidate.type = "text/plain"
    /\ candidate.name = <<"notes", "txt">>
    /\ validated[1].details.unsupportedFormat

\* a value is a string with a character that is not white space
NonEmptyAfterTrim(v) == v.t = "string" /\ \E i \in DOMAIN v.s : ~IsWhitespace(v.s[i])
\* a value is missing, or a string that is empty or all white space
MissingOrBlank(v) == v = Undef \/ BlankText(v)

\* C22 as stated: validatePipelineStages returns true exactly when the
\* transcript and the response are both non-empty after trimming, and false
\* when either is missing, empty or whitespace-only.
C22_Original ==
    checked # <<>> =>
        LET c == checked[1]
        IN  /\ (c.outcome = "true")
                   <=> (NonEmptyAfterTrim(c.transcript) /\ NonEmptyAfterTrim(c.llmOutput))
            /\ (MissingOrBlank(c.transcript) \/ MissingOrBlank(c.llmOutput)) =>
                   c.outcome = "false"

\* the form of request r, and whether it carries a File of an audio type
FormOf(r) == request[r][1]
CarriesAudio(r) ==
    /\ request[r] # <<>>
    /\ FormOf(r).kind = "file"
    /\ FormOf(r).audio.type \in AudioMediaTypes
Responded(r) == response[r] # <<>>
StatusOf(r) == response[r][1].status

\* C23 (as stated): at the HTTP boundary a validation failure (wrong file
\* type, file too large) is answered with a 400-class status, any other
\* PipelineError with 422 and an unclassified error with 500
C23_Original ==
    \A r \in Requests :
        Responded(r) /\ pc[r] = "thrown" =>
            LET e == thrown[r][1]
            IN  StatusOf(r) = IF ~InstanceOfPipelineError(e) THEN 500
                              ELSE IF e.stage = "validation" THEN 400
                              ELSE 422

\* C29: POST /process-voice answers 400 without invoking processVoicePipeline
\* when the form has no 'audio' File or its type does not start with
\* 'audio/'; the pipeline is invoked at most once per request, and only
\* after both checks passed
C29_ChecksBeforePipeline ==
    \A r \in Requests :
        /\ invocations[r] <= 1
        /\ request[r] # <<>> /\ ~CarriesAudio(r) =>
               /\ Responded(r) /\ StatusOf(r) = 400
               /\ invocations[r] = 0
               /\ pc[r] = "idle" /\ calls[r] = <<>> /\ pipelineStages[r] = <<>>
        /\ invocations[r] > 0 => CarriesAudio(r)
        /\ pc[r] # "idle" => invocations[r] = 1

\* a request whose file is not of an audio type has been answered 400
C29_Witness ==
    \E r \in Requests :
        /\ request[r] # <<>> /\ FormOf(r).kind = "file" /\ ~CarriesAudio(r)
        /\ Responded(r) /\ StatusOf(r) = 400 /\ invocations[r] = 0

\* the provider calls of run r that have been issued and not yet answered
\* (received[r][1] is the answer of audioFile.arrayBuffer())
InFlight(r) ==
    Len(calls[r]) - (IF received[r] = <<>> THEN 0 ELSE Len(received[r]) - 1)

\* the log of run r holds a success outcome of `stage` at place i
SucceededAt(r, i, stage) ==
    /\ Len(pipelineStages[r]) >= i
    /\ pipelineStages[r][i].stage = stage
    /\ pipelineStages[r][i].success

\* C30: within a run the generator is invoked only after the transcriber
\* succeeded and receives exactly the transcript; the synthesizer is invoked
\* only after the generator succeeded and the output check passed, and
\* receives exactly the generator's output; no two adapter calls of one run
\* are in flight at once
C30_DataFlowsForward ==
    \A r \in Runs :
        /\ Len(calls[r]) <= 3
        /\ \A i \in DOMAIN calls[r] :
               calls[r][i].target = <<"whisper-large-v3", "llama-3.3-70b", "hume-tts">>[i]
        /\ Len(calls[r]) >= 2 =>
               /\ Len(received[r]) >= 2
               /\ SucceededAt(r, 2, "whisper")
               /\ calls[r][2].input = received[r][2].value
               /\ calls[r][2].input = transcript[r]
        /\ Len(calls[r]) >= 3 =>
               /\ Len(received[r]) >= 3
               /\ SucceededAt(r, 3, "llama")
               /\ NonEmptyAfterTrim(transcript[r]) /\ NonEmptyAfterTrim(llmOutput[r])
               /\ calls[r][3].input = received[r][3].value
               /\ calls[r][3].input = llmOutput[r]
        /\ InFlight(r) \in {0, 1}
        /\ InFlight(r) = 1 <=> pc[r] \in {"whisper", "llama", "hume"}

\* the synthesizer has been called with a generator output that has white
\* space around it, after a transcript with white space went to the generator
C30_Witness ==
    \E r \in Runs :
        /\ Len(calls[r]) = 3
        /\ calls[r][2].input.t = "string" /\ calls[r][2].input.s # TrimStart(calls[r][2].input.s)
        /\ calls[r][3].input = llmOutput[r]
        /\ pc[r] = "hume"

\* an outcome log without its timings
LogShape(log) ==
    [i \in DOMAIN log |->
        [stage |-> log[i].stage, success |-> log[i].success, error |-> log[i].error]]

\* what run r has produced so far, timings left out
OutcomeOf(r) ==
    [pc |-> pc[r],
     transcript |-> transcript[r],
     llmOutput |-> llmOutput[r],
     calls |-> calls[r],
     thrown |-> thrown[r],
     log |-> LogShape(pipelineStages[r]),
     result |-> IF result[r] = <<>> THEN <<>>
                ELSE <<[audioBase64 |-> result[r][1].audioBase64,
                        originalDuration |-> result[r][1].metadata.originalDuration,
                        transcriptLength |-> result[r][1].metadata.transcriptLength,
                        log |-> LogShape(result[r][1].metadata.pipelineStages)]>>]

\* two started runs with the same file and the same answers so far have
\* produced the same, however their steps were interleaved (one of them
\* alone before the other included), and a log holds each stage once, in order
SameOutcomeAlone ==
    \A r, q \in Runs :
        /\ LogInOrder(r)
        /\ (/\ pc[r] # "idle" /\ pc[q] # "idle"
            /\ file[r] = file[q] /\ received[r] = received[q])
               => OutcomeOf(r) = OutcomeOf(q)

\* a step in which run r neither moves nor is answered leaves all of r's
\* state as it was
OwnStateOnly ==
    \A r \in Runs :
        (pc'[r] = pc[r] /\ received'[r] = received[r]) =>
            /\ pipelineStages'[r] = pipelineStages[r]
            /\ transcript'[r] = transcript[r] /\ llmOutput'[r] = llmOutput[r]
            /\ calls'[r] = calls[r] /\ file'[r] = file[r]
            /\ startTime'[r] = startTime[r] /\ stageStart'[r] = stageStart[r]
            /\ thrown'[r] = thrown[r] /\ result'[r] = result[r]
            /\ failedStage'[r] = failedStage[r] /\ raised'[r] = raised[r]

\* C24: two runs of processVoicePipeline executing concurrently, under any
\* interleaving of their adapter calls, share no mutable state: each run's
\* log holds only outcomes of its own stages, and each run's result or
\* failure is the one it produces alone with the same adapter responses
C24_RunsIndependent == []SameOutcomeAlone /\ [][OwnStateOnly]_vars

\* both runs wait for the synthesizer at once, with the same file and the
\* same answers so far
C24_Witness ==
    /\ pc["r1"] = "hume" /\ pc["r2"] = "hume"
    /\ file["r1"] = file["r2"] /\ received["r1"] = received["r2"]

\* an error that reports a timeout
TimeoutFailure(e) ==
    /\ InstanceOfPipelineError(e)
    /\ \/ HasPiece(e.message, "timeout")
       \/ e.details.t = "string" /\ HasPiece(e.details.s, "timeout")

\* C25 (as stated): a run that exceeds its wall-clock budget is abandoned and
\* reported as a timeout failure tagged with the stage that was in flight,
\* not as a generic failure
C25_Original ==
    \A r \in Runs :
        (overdue[r] # <<>> /\ Ended(r)) =>
            /\ pc[r] = "thrown"
            /\ TimeoutFailure(thrown[r][1])
            /\ thrown[r][1].stage = overdue[r][1]

\* C26 (as stated): after the caller has cancelled a run no further stage
\* call is issued, and the result of the call that was in flight is discarded
C26_Original ==
    \A r \in Runs :
        cancelled[r] # <<>> =>
            /\ Len(calls[r]) = cancelled[r][1]
            /\ pc[r] # "returned"

\* an attempt of processGitHaiku failed: its call of the model rejected, or
\* resolved with no answer object at all
AttemptFailed(a) == a.kind \in {"reject", "nullish"}

\* the attempts so far that did not fail
Succeeded == {i \in DOMAIN aiAnswers : ~AttemptFailed(aiAnswers[i])}

\* C27 (as stated): after validation processGitHaiku calls the model at most
\* 3 times and re-calls it only after a failed attempt; when the first
\* successful attempt is attempt k the model was called exactly k times and
\* the formatted haiku is returned; when all 3 attempts failed the fixed
\* message is returned and formatHaikuResponse was never called
C27_Original ==
    /\ Len(aiCalls) <= maxAttempts
    /\ \A i \in DOMAIN aiCalls : i > 1 => AttemptFailed(aiAnswers[i - 1])
    /\ (hpc = "returned" /\ aiCalls # <<>>) =>
           IF Succeeded # {}
           THEN LET k == CHOOSE i \in Succeeded : \A j \in Succeeded : i <= j
                IN  /\ Len(aiCalls) = k
                    /\ haiku = <<formatHaikuResponse(aiAnswers[k].value)>>
           ELSE /\ Len(aiCalls) = maxAttempts
                /\ haiku = <<FailedMessage>>
                /\ formatCalls = <<>>

\* the commits are an empty array, or hold an element that is no string or
\* is empty after trimming
Rejected(c) ==
    \/ c.t = "array" /\ c.s = <<>>
    \/ c.t = "array" /\ \E i \in DOMAIN c.s :
           c.s[i].t # "string" \/ \A j \in DOMAIN c.s[i].s : IsWhitespace(c.s[i].s[j])

\* C28: when validateCommits rejects the commits, processGitHaiku returns
\* 'Error: <validation error>' at once and the model is never called
C28_RejectedWithoutCall ==
    (hpc # "idle" /\ Rejected(commits)) =>
        /\ hpc = "returned"
        /\ aiCalls = <<>> /\ aiAnswers = <<>> /\ formatCalls = <<>>
        /\ haiku = <<Str(<<"Error: ">> \o validateCommits(commits).error.s)>>
        /\ haiku[1].s[2] = IF commits.s = <<>>
                           THEN "Commits array cannot be empty"
                           ELSE "All commit messages must be non-empty strings"

\* commits whose second element is blank have been answered with the error
C28_Witness ==
    /\ hpc = "returned"
    /\ commits.t = "array" /\ Len(commits.s) = 2
    /\ ~BadCommit(commits.s[1]) /\ commits.s[2] = Str(<<" ">>)
    /\ haiku = <<Str(<<"Error: ", "All commit messages must be non-empty strings">>)>>

\* the provider call of run r that was issued last
LastCall(r) == calls[r][Len(calls[r])]

\* C31 (as stated): a failing stage is retried once before the run is reported
\* as an error, so a run that failed on a rejection of the transcriber, the
\* generator or the synthesizer has called that provider a second time
C31_Original ==
    \A r \in Runs :
        (pc[r] = "thrown" /\ ProviderCallRejected(r)) =>
            Cardinality(CallsOf(r, CallStage(LastCall(r)))) = 2

\* the four stages before the assembly succeeded in run r
FourStagesSucceeded(r) ==
    /\ Len(pipelineStages[r]) >= 4
    /\ \A i \in 1..4 :
           /\ pipelineStages[r][i].stage = PipelineStageOrder[i]
           /\ pipelineStages[r][i].success

C33_SizeBeforeFormat ==
    validated # <<>> =>
        LET v == validated[1]
        IN  /\ candidate.size > 25 * 1024 * 1024 =>
                   /\ ~v.valid
                   /\ v.details.maxSizeExceeded
                   /\ ~v.details.unsupportedFormat
            /\ ~(v.details.maxSizeExceeded /\ v.details.unsupportedFormat)
            /\ v.valid <=> (~v.details.maxSizeExceeded /\ ~v.details.unsupportedFormat)

\* an oversize file whose type and extension are both unsupported was
\* answered with the size failure
C33_Witness ==
    /\ validated # <<>>
    /\ candidate.size > 25 * 1024 * 1024
    /\ BothUnsupported(candidate)
    /\ validated[1].details.maxSizeExceeded
    /\ ~validated[1].details.unsupportedFormat

-----------------------------------------------------------------------------
(* The git-haiku tool: the handler registered with the MCP server *)

\* the commits the tool's input schema lets through: z.array(z.string()).min(1)
ToolCommits ==
    {c \in CommitInputs :
        c.t = "array" /\ Len(c.s) >= 1 /\ \A i \in DOMAIN c.s : c.s[i].t = "string"}

\* what a stand-in for processGitHaiku rejects with (mockRejectedValue)
ControllerRejections ==
    Rejections \cup {MkError("Error", <<"Unexpected controller error">>)}

\* a string of the controller that reports an error
IsErrorText(v) ==
    v.s # <<>> /\ v.s[1] \in {"Error: ", FailedMessage.s[1]}

\* const errorMessage = error instanceof Error ? error.message : 'Unknown error occurred'
errorMessage(error) ==
    IF InstanceOfError(error) THEN error.message ELSE <<"Unknown error occurred">>

ToolReturned(text) ==
    [kind |-> "returned", content |-> <<[type |-> "text", text |-> text]>>,
     error |-> NoError]

ToolThrew(e) == [kind |-> "thrown", content |-> <<>>, error |-> e]

\* the handler up to its await: processGitHaiku(commits, env) is called
ToolCall ==
    /\ tpc = "idle"
    /\ tpc' = "awaiting"
    /\ UNCHANGED <<controllerRejection, toolResult>>
    /\ UNCHANGED <<haikuVars, agentVars, runVars, now, clockBackward, reporterVars,
                   validatorVars, callerVars>>

\* a handler that throws the controller's error strings instead of returning them
ToolSettles_ThrowsErrorTexts ==
    /\ tpc = "awaiting"
    /\ IF controllerRejection # <<>>
       THEN /\ toolResult' =
                  <<ToolThrew(MkError("Error", errorMessage(controllerRejection[1])))>>
            /\ tpc' = "thrown"
       ELSE /\ hpc = "returned"
            /\ IF IsErrorText(haiku[1])
               THEN /\ toolResult' = <<ToolThrew(MkError("Error", haiku[1].s))>>
                    /\ tpc' = "thrown"
               ELSE /\ toolResult' = <<ToolReturned(haiku[1])>>
                    /\ tpc' = "returned"
    /\ UNCHANGED controllerRejection
    /\ UNCHANGED <<haikuVars, agentVars, runVars, now, clockBackward, reporterVars,
                   validatorVars, callerVars>>

\* await processGitHaiku(commits, env) settles: the return of the try block,
\* or the catch block
ToolSettles ==
    /\ tpc = "awaiting"
    /\ IF controllerRejection # <<>>
       THEN /\ toolResult' =
                  <<ToolThrew(MkError("Error", errorMessage(controllerRejection[1])))>>
            /\ tpc' = "thrown"
       ELSE /\ hpc = "returned"
            /\ toolResult' = <<ToolReturned(haiku[1])>>
            /\ tpc' = "returned"
    /\ UNCHANGED controllerRejection
    /\ UNCHANGED <<haikuVars, agentVars, runVars, now, clockBackward, reporterVars,
                   validatorVars, callerVars>>

\* the tool is registered; its caller hands it commits the input schema lets
\* through, and processGitHaiku is the controller or a stand-in that rejects
ToolInit ==
    /\ pc = [r \in Runs |-> "idle"]
    /\ file = [r \in Runs |-> NoFile]
    /\ NoReports
    /\ NoCandidate
    /\ NoCaller
    /\ hpc = "idle"
    /\ commits \in ToolCommits
    /\ attempt = 0
    /\ aiCalls = <<>>
    /\ aiAnswers = <<>>
    /\ formatCalls = <<>>
    /\ haiku = <<>>
    /\ tpc = "idle"
    /\ controllerRejection \in {<<>>} \cup {<<e>> : e \in ControllerRejections}
    /\ toolResult = <<>>
    /\ NoAgent
    /\ OrdinaryFiles
    /\ now = 0
    /\ startTime = [r \in Runs |-> 0]
    /\ stageStart = [r \in Runs |-> 0]
    /\ pipelineStages = [r \in Runs |-> <<>>]
    /\ transcript = [r \in Runs |-> Undef]
    /\ llmOutput = [r \in Runs |-> Undef]
    /\ calls = [r \in Runs |-> <<>>]
    /\ received = [r \in Runs |-> <<>>]
    /\ failedStage = [r \in Runs |-> <<>>]
    /\ raised = [r \in Runs |-> <<>>]
    /\ thrown = [r \in Runs |-> <<>>]
    /\ result = [r \in Runs |-> <<>>]
    /\ clockBackward = FALSE

\* the controller runs inside the handler's call, unless a stand-in replaces it
ToolNext ==
    \/ ToolCall
    \/ (tpc = "awaiting" /\ controllerRejection = <<>> /\ HaikuStart)
    \/ (tpc = "awaiting" /\ controllerRejection = <<>> /\ HaikuAISettles)
    \/ ToolSettles

ToolSpec == ToolInit /\ [][ToolNext]_vars

-----------------------------------------------------------------------------
(* The SmartMemory chat endpoint: POST of pages/api/agent.ts.  The timings    *)
(* the handler measures and returns are left out: no decision reads them.    *)

\* most memories getMemory.retrieve answers with
MaxMemories == 2

\* the message and the sessionId of a request body: missing, empty or present
MessageValues == {Undef, Str(<<>>), Str(<<"Hello">>)}
SessionIdValues == {Undef, Str(<<>>), Str(<<"s1">>)}

\* await request.json(): rejects (the body is no JSON), resolves with null,
\* or resolves with an object holding message and sessionId
JsonAnswers ==
    {[kind |-> k, message |-> Undef, sessionId |-> Undef] : k \in {"reject", "null"}}
    \cup {[kind |-> "object", message |-> m, sessionId |-> i] :
            m \in MessageValues, i \in SessionIdValues}

\* await raindrop.startSession.create(...): rejects, resolves with no object,
\* or resolves with an object whose sessionId field holds value
SessionAnswers ==
    {Answer("reject", Undef, e, 0) : e \in Rejections}
    \cup {Answer("nullish", Undef, NoError, 0)}
    \cup {Answer("object", v, NoError, 0) : v \in {Undef, Str(<<"s2">>)}}

\* a stored memory
Memory(i) == [content |-> Str(<<"memory">>), index |-> i]

\* await raindrop.getMemory.retrieve(...): rejects, resolves with no object,
\* or resolves with an object whose memories field is missing or an array
MemoryAnswers ==
    {Answer("reject", Undef, e, 0) : e \in Rejections}
    \cup {Answer("nullish", Undef, NoError, 0)}
    \cup {Answer("object", Undef, NoError, 0)}
    \cup {Answer("object", ArrayOf([i \in 1..n |-> Memory(i)]), NoError, 0) :
            n \in 0..MaxMemories}

\* await raindrop.putMemory.create(...)
PutAnswers ==
    {Answer("reject", Undef, e, 0) : e \in Rejections}
    \cup {Answer("resolve", Undef, NoError, 0)}

RaindropCall(api, sessionId, content) ==
    [api |-> api, sessionId |-> sessionId, content |-> content]

\* new Response(JSON.stringify({...}), { status })
AgentResponse(status, error, details, sessionId, memoryCount, text) ==
    [status |-> status, error |-> error, details |-> details,
     sessionId |-> sessionId, memoryCount |-> memoryCount, response |-> text]

\* the catch block of the handler
FailedToProcess(e) ==
    AgentResponse(500, <<"Failed to process message">>, OutcomeErrorText(e),
                  Undef, 0, <<>>)

\* const memories = memorySearch.memories || []
memories(search) == IF search.t = "array" THEN search.s ELSE <<>>

\* let assistantMessage: the first-message text, or the text that lists the
\* memories
assistantMessage(message, search) ==
    IF Len(memories(search)) = 0
    THEN <<"Demo Mode: This is your first message!">> \o message.s
    ELSE <<"Demo Mode: I can see our conversation history", Len(memories(search))>>
         \o message.s \o [i \in DOMAIN memories(search) |-> memories(search)[i].content.s[1]]

\* a count that leaves the new memory out
memoryCount_RetrievedOnly(search) == Len(memories(search))

\* memoryCount: (memorySearch.memories?.length || 0) + 1
memoryCount(search) == Len(memories(search)) + 1

\* the handler answers and is done
AgentAnswers(r) ==
    /\ agentResponse' = <<r>>
    /\ apc' = "responded"

\* raindrop.getMemory.retrieve({ sessionId: currentSessionId, ... }) is called
Retrieve(id) ==
    /\ raindropCalls' = Append(raindropCalls, RaindropCall("getMemory.retrieve", id, <<>>))
    /\ apc' = "getMemory"
    /\ UNCHANGED agentResponse

\* a handler that starts a session for every request
AgentStart_AlwaysCreates ==
    /\ apc = "idle"
    /\ IF json.kind = "reject"
       THEN /\ AgentAnswers(FailedToProcess(MkError("SyntaxError", <<"Unexpected token">>)))
            /\ UNCHANGED <<currentSessionId, raindropCalls>>
       ELSE IF json.kind = "null"
       THEN /\ AgentAnswers(FailedToProcess(TypeErrorOf("Cannot destructure property 'message'")))
            /\ UNCHANGED <<currentSessionId, raindropCalls>>
       ELSE IF ~Truthy(json.message)
       THEN /\ AgentAnswers(AgentResponse(400, <<"Message is required">>, Undef, Undef, 0, <<>>))
            /\ UNCHANGED <<currentSessionId, raindropCalls>>
       ELSE IF ~environment
       THEN /\ AgentAnswers(AgentResponse(500, <<"Missing required environment variables">>,
                                          NonString, Undef, 0, <<>>))
            /\ UNCHANGED <<currentSessionId, raindropCalls>>
       ELSE /\ currentSessionId' = json.sessionId
            /\ raindropCalls' =
                    Append(raindropCalls, RaindropCall("startSession.create", Undef, <<>>))
            /\ apc' = "startSession"
            /\ UNCHANGED agentResponse
    /\ UNCHANGED <<json, environment, memorySearch, raindropAnswers>>
    /\ UNCHANGED <<haikuVars, toolVars, runVars, now, clockBackward, reporterVars,
                   validatorVars, callerVars>>

\* the handler from await request.json() to its first Raindrop call, or to
\* the response it gives without one
AgentStart ==
    /\ apc = "idle"
    /\ IF json.kind = "reject"
       THEN /\ AgentAnswers(FailedToProcess(MkError("SyntaxError", <<"Unexpected token">>)))
            /\ UNCHANGED <<currentSessionId, raindropCalls>>
       ELSE IF json.kind = "null"
       THEN /\ AgentAnswers(FailedToProcess(TypeErrorOf("Cannot destructure property 'message'")))
            /\ UNCHANGED <<currentSessionId, raindropCalls>>
       ELSE IF ~Truthy(json.message)
       THEN /\ AgentAnswers(AgentResponse(400, <<"Message is required">>, Undef, Undef, 0, <<>>))
            /\ UNCHANGED <<currentSessionId, raindropCalls>>
       ELSE IF ~environment
       THEN /\ AgentAnswers(AgentResponse(500, <<"Missing required environment variables">>,
                                          NonString, Undef, 0, <<>>))
            /\ UNCHANGED <<currentSessionId, raindropCalls>>
       ELSE /\ currentSessionId' = json.sessionId
            /\ IF ~Truthy(json.sessionId)
               THEN /\ raindropCalls' =
                          Append(raindropCalls, RaindropCall("startSession.create", Undef, <<>>))
                    /\ apc' = "startSession"
                    /\ UNCHANGED agentResponse
               ELSE Retrieve(json.sessionId)
    /\ UNCHANGED <<json, environment, memorySearch, raindropAnswers>>
    /\ UNCHANGED <<haikuVars, toolVars, runVars, now, clockBackward, reporterVars,
                   validatorVars, callerVars>>

\* await raindrop.startSession.create(...) settles: currentSessionId =
\* session.sessionId and the retrieval, or the catch block
StartSessionSettles ==
    /\ apc = "startSession"
    /\ \E a \in SessionAnswers :
         /\ raindropAnswers' = Append(raindropAnswers, a)
         /\ CASE a.kind = "reject" ->
                   /\ AgentAnswers(FailedToProcess(a.error))
                   /\ UNCHANGED <<currentSessionId, raindropCalls>>
              [] a.kind = "nullish" ->
                   /\ AgentAnswers(FailedToProcess(TypeErrorOf("Cannot read properties of undefined (reading 'sessionId')")))
                   /\ UNCHANGED <<currentSessionId, raindropCalls>>
              [] OTHER ->
                   /\ currentSessionId' = a.value
                   /\ Retrieve(a.value)
    /\ UNCHANGED <<json, environment, memorySearch>>
    /\ UNCHANGED <<haikuVars, toolVars, runVars, now, clockBackward, reporterVars,
                   validatorVars, callerVars>>

\* await raindrop.getMemory.retrieve(...) settles: the demo response is built
\* and putMemory.create is called, or the catch block
GetMemorySettles ==
    /\ apc = "getMemory"
    /\ \E a \in MemoryAnswers :
         /\ raindropAnswers' = Append(raindropAnswers, a)
         /\ CASE a.kind = "reject" ->
                   /\ AgentAnswers(FailedToProcess(a.error))
                   /\ UNCHANGED <<memorySearch, raindropCalls>>
              [] a.kind = "nullish" ->
                   /\ AgentAnswers(FailedToProcess(TypeErrorOf("Cannot read properties of undefined (reading 'memories')")))
                   /\ UNCHANGED <<memorySearch, raindropCalls>>
              [] OTHER ->
                   /\ memorySearch' = <<a.value>>
                   /\ raindropCalls' =
                          Append(raindropCalls,
                                 RaindropCall("putMemory.create", currentSessionId,
                                              <<"User said: ">> \o json.message.s
                                              \o <<". I responded: ">>
                                              \o assistantMessage(json.message, a.value)))
                   /\ apc' = "putMemory"
                   /\ UNCHANGED agentResponse
    /\ UNCHANGED <<json, environment, currentSessionId>>
    /\ UNCHANGED <<haikuVars, toolVars, runVars, now, clockBackward, reporterVars,
                   validatorVars, callerVars>>

\* await raindrop.putMemory.create(...) settles: the 200 response, or the
\* catch block
PutMemorySettles ==
    /\ apc = "putMemory"
    /\ \E a \in PutAnswers :
         /\ raindropAnswers' = Append(raindropAnswers, a)
         /\ IF a.kind = "reject"
            THEN AgentAnswers(FailedToProcess(a.error))
            ELSE AgentAnswers(AgentResponse(200, <<>>, Undef, currentSessionId,
                                            memoryCount(memorySearch[1]),
                                            assistantMessage(json.message, memorySearch[1])))
    /\ UNCHANGED <<json, environment, currentSessionId, memorySearch, raindropCalls>>
    /\ UNCHANGED <<haikuVars, toolVars, runVars, now, clockBackward, reporterVars,
                   validatorVars, callerVars>>

\* one request has reached the endpoint
AgentInit ==
    /\ pc = [r \in Runs |-> "idle"]
    /\ file = [r \in Runs |-> NoFile]
    /\ NoReports
    /\ NoCandidate
    /\ NoCaller
    /\ NoHaiku
    /\ NoTool
    /\ apc = "idle"
    /\ json \in JsonAnswers
    /\ environment \in BOOLEAN
    /\ currentSessionId = Undef
    /\ memorySearch = <<>>
    /\ raindropCalls = <<>>
    /\ raindropAnswers = <<>>
    /\ agentResponse = <<>>
    /\ OrdinaryFiles
    /\ now = 0
    /\ startTime = [r \in Runs |-> 0]
    /\ stageStart = [r \in Runs |-> 0]
    /\ pipelineStages = [r \in Runs |-> <<>>]
    /\ transcript = [r \in Runs |-> Undef]
    /\ llmOutput = [r \in Runs |-> Undef]
    /\ calls = [r \in Runs |-> <<>>]
    /\ received = [r \in Runs |-> <<>>]
    /\ failedStage = [r \in Runs |-> <<>>]
    /\ raised = [r \in Runs |-> <<>>]
    /\ thrown = [r \in Runs |-> <<>>]
    /\ result = [r \in Runs |-> <<>>]
    /\ clockBackward = FALSE

AgentNext == AgentStart \/ StartSessionSettles \/ GetMemorySettles \/ PutMemorySettles

AgentSpec == AgentInit /\ [][AgentNext]_vars

\* the positions of the calls of one Raindrop API
CallsTo(api) == {i \in DOMAIN raindropCalls : raindropCalls[i].api = api}

\* the endpoint has answered with this status
AnsweredWith(status) == agentResponse # <<>> /\ agentResponse[1].status = status

\* the body is an object whose message passes the handler's test
ChatRequest == json.kind = "object" /\ Truthy(json.message) /\ environment

\* C36: a session is created only for a request that carries no sessionId
\* (none, or an empty one, which is what the handler tests): with a sessionId
\* startSession.create is never called and a 200 response returns that
\* sessionId; without one startSession.create is the first Raindrop call, it
\* is the only call of it, and a 200 response returns the id the call
\* resolved with; a body without a message is answered 400 with no Raindrop
\* call made
C36_SessionOnlyWhenNone ==
    /\ (json.kind = "object" /\ ~Truthy(json.message)) =>
          /\ raindropCalls = <<>>
          /\ apc # "idle" => AnsweredWith(400)
    /\ (ChatRequest /\ Truthy(json.sessionId)) =>
          /\ CallsTo("startSession.create") = {}
          /\ apc # "idle" => raindropCalls # <<>>
          /\ AnsweredWith(200) => agentResponse[1].sessionId = json.sessionId
    /\ (ChatRequest /\ ~Truthy(json.sessionId)) =>
          /\ apc # "idle" => CallsTo("startSession.create") = {1}
          /\ AnsweredWith(200) =>
                 /\ raindropAnswers[1].kind = "object"
                 /\ agentResponse[1].sessionId = raindropAnswers[1].value

\* a request without a sessionId was served: the session was created first
\* and its id came back
C36_Witness ==
    /\ ChatRequest
    /\ json.sessionId = Undef
    /\ AnsweredWith(200)
    /\ agentResponse[1].sessionId = Str(<<"s2">>)
    /\ raindropCalls[1].api = "startSession.create"
    /\ Len(raindropCalls) = 3

\* a Raindrop call failed: it rejected, or what it resolved with could not be read
RaindropFailed ==
    \E i \in DOMAIN raindropAnswers : raindropAnswers[i].kind \in {"reject", "nullish"}

\* C37: a request answered 200 made exactly one getMemory.retrieve and then
\* exactly one putMemory.create, as its last two calls and for the same
\* session; putMemory.create is only ever called right after a retrieval
\* that resolved; memoryCount is the number of memories retrieved plus one;
\* and a failed Raindrop call is answered with status 500 and error 'Failed
\* to process message'
C37_RetrieveThenStore ==
    /\ AnsweredWith(200) =>
          LET n == Len(raindropCalls)
          IN  /\ n >= 2
              /\ CallsTo("getMemory.retrieve") = {n - 1}
              /\ CallsTo("putMemory.create") = {n}
              /\ raindropCalls[n].sessionId = raindropCalls[n - 1].sessionId
              /\ raindropCalls[n].sessionId = agentResponse[1].sessionId
              /\ Len(raindropAnswers) = n
              /\ agentResponse[1].memoryCount =
                     (IF raindropAnswers[n - 1].value.t = "array"
                      THEN Len(raindropAnswers[n - 1].value.s) ELSE 0) + 1
    /\ \A j \in CallsTo("putMemory.create") :
          /\ j > 1
          /\ raindropCalls[j - 1].api = "getMemory.retrieve"
          /\ raindropAnswers[j - 1].kind = "object"
    /\ RaindropFailed =>
          /\ AnsweredWith(500)
          /\ agentResponse[1].error = <<"Failed to process message">>
          /\ apc = "responded"

\* a request with a sessionId found two memories and stored a third
C37_Witness ==
    /\ AnsweredWith(200)
    /\ json.sessionId = Str(<<"s1">>)
    /\ Len(raindropCalls) = 2
    /\ raindropAnswers[1].value.t = "array"
    /\ Len(raindropAnswers[1].value.s) = 2
    /\ agentResponse[1].memoryCount = 3

\* the log of run r holds a failed outcome
FailureRecorded(r) ==
    \E i \in DOMAIN pipelineStages[r] : ~pipelineStages[r][i].success

\* the last outcome of the log of run r
LastOutcome(r) == pipelineStages[r][Len(pipelineStages[r])]

\* C38, as stated: when a run has thrown and its log holds a failed outcome,
\* that outcome is the last one and carries the stage of the thrown
\* PipelineError; when the stage is one of the three adapters (whisper,
\* llama, hume) the outcome's error text equals the PipelineError's details
C38_Original ==
    \A r \in Runs :
        (pc[r] = "thrown" /\ FailureRecorded(r)) =>
            /\ thrown[r][1].name = "PipelineError"
            /\ ~LastOutcome(r).success
            /\ LastOutcome(r).stage = thrown[r][1].stage
            /\ LastOutcome(r).stage \in {"whisper", "llama", "hume"} =>
                   LastOutcome(r).error = thrown[r][1].details

\* the sum of the durationMs of the outcomes of a log
RECURSIVE TotalDuration(_)
TotalDuration(stages) ==
    IF stages = <<>> THEN 0
    ELSE stages[1].durationMs + TotalDuration(Tail(stages))

\* C39: with a clock that has never stepped backwards, a run that returned
\* reports five stage outcomes, none with a negative duration, and a
\* metadata.processingTimeMs that is at least the sum of their durationMs
C39_TimeCoversStages ==
    \A r \in Runs :
        (pc[r] = "returned" /\ ~clockBackward) =>
            LET metadata == result[r][1].metadata
            IN  /\ Len(metadata.pipelineStages) = 5
                /\ \A i \in 1..5 : metadata.pipelineStages[i].durationMs >= 0
                /\ metadata.processingTimeMs >= TotalDuration(metadata.pipelineStages)

\* a run returned on a forward clock with time spent in three stages and
\* more time between the last stage and the final reading
C39_Witness ==
    \E r \in Runs :
        /\ pc[r] = "returned"
        /\ ~clockBackward
        /\ Cardinality({i \in 1..5 :
               result[r][1].metadata.pipelineStages[i].durationMs > 0}) >= 3
        /\ result[r][1].metadata.processingTimeMs >
               TotalDuration(result[r][1].metadata.pipelineStages)

-----------------------------------------------------------------------------
(* Termination of a run: every awaited call settles *)

\* the clock is left out of the question of termination
StillClock == now' = now /\ clockBackward' = clockBackward

LiveNext ==
    \/ \E r \in Runs : Start(r) /\ StillClock
    \/ \E r \in Runs : ArrayBufferSettles(r) /\ StillClock
    \/ \E r \in Runs : WhisperSettles(r) /\ StillClock
    \/ \E r \in Runs : LlamaSettles(r) /\ StillClock
    \/ \E r \in Runs : HumeSettles(r) /\ StillClock

\* every call a run awaits eventually resolves or rejects: the step that
\* resumes the run is taken once it is enabled
CallsSettle ==
    \A r \in Runs :
        /\ WF_vars(ArrayBufferSettles(r) /\ StillClock)
        /\ WF_vars(WhisperSettles(r) /\ StillClock)
        /\ WF_vars(LlamaSettles(r) /\ StillClock)
        /\ WF_vars(HumeSettles(r) /\ StillClock)

LiveSpec == Init /\ [][LiveNext]_vars /\ CallsSettle

\* how far a run has come
Progress(p) ==
    CASE p = "idle" -> 0
      [] p = "arrayBuffer" -> 1
      [] p = "whisper" -> 2
      [] p = "llama" -> 3
      [] p = "hume" -> 4
      [] OTHER -> 5

\* a run that is suspended waits for one call, the one of its current stage
WaitsOnCurrentCall(r) ==
    /\ pc[r] = "arrayBuffer" => (calls[r] = <<>> /\ received[r] = <<>>)
    /\ pc[r] \in {"whisper", "llama", "hume"} =>
          /\ Len(calls[r]) = Len(received[r])
          /\ Len(calls[r]) = Progress(pc[r]) - 1
          /\ CallStage(calls[r][Len(calls[r])]) = StageInFlight(pc[r])

\* a run has ended by returning a result or by throwing a PipelineError
EndedProperly(r) ==
    \/ pc[r] = "returned" /\ result[r] # <<>> /\ thrown[r] = <<>>
    \/ pc[r] = "thrown" /\ result[r] = <<>> /\ thrown[r] # <<>>
          /\ thrown[r][1].name = "PipelineError"

\* C40: when every awaited call settles, a run that was started ends, by
\* returning a result or by throwing a PipelineError; until then it is
\* suspended on the one call of its current stage, and every answer moves it
\* forward (no stage is entered a second time)
C40_Terminates ==
    /\ \A r \in Runs : (pc[r] # "idle") ~> EndedProperly(r)
    /\ [](\A r \in Runs :
            /\ pc[r] \in {"idle", "arrayBuffer", "whisper", "llama", "hume",
                          "returned", "thrown"}
            /\ WaitsOnCurrentCall(r)
            /\ Ended(r) => EndedProperly(r))
    /\ [][\A r \in Runs :
            (pc'[r] # pc[r] \/ received'[r] # received[r]) =>
                /\ Progress(pc'[r]) > Progress(pc[r])
                /\ ~Ended(r)]_vars

\* a run ended by throwing after the synthesizer's call, its third, rejected
C40_Witness ==
    \E r \in Runs :
        /\ pc[r] = "thrown"
        /\ thrown[r][1].stage = "hume"
        /\ Len(calls[r]) = 3
        /\ received[r][4].kind = "reject"

=============================================================================
